---------------------------- MODULE Spec2Model ----------------------------
(***************************************************************************)
(* Federation validation harness (scripts/federation_e2e_validation.py and *)
(* scripts/federation_live_fundamentals_validation.py) and the security    *)
(* release gate (scripts/security_gate_check.py).                          *)
(*                                                                         *)
(* These state machines share this module:                                 *)
(*   SpecRelay  - the relay verification step of main() in both scripts,   *)
(*                run against the delivery-attempt and ingestion ledgers   *)
(*                that the nodes under test write;                         *)
(*   SpecPoller - wait_until() of both scripts, one action per loop        *)
(*                iteration, time in milliseconds;                         *)
(*   Spec       - one GatewayClient session of the live script;            *)
(*   SpecMain   - main() of both scripts: the steps of the try block and   *)
(*                the loops of the finally block;                          *)
(*   SpecTeardown  - SpecMain with the teardown entered a second time;     *)
(*   SpecRequest   - request_json() of both scripts;                       *)
(*   SpecTrust     - the trust configuration and its final assertion;      *)
(*   SpecDb        - the harness's access to the nodes' SQLite stores;     *)
(*   SpecBlocking  - the loops of wait_dispatch and wait_until, in time;   *)
(*   SpecScenario  - the message scenario of the live script, in time;     *)
(*   SpecSessions  - the three sessions of the relationship scenario;      *)
(*   SpecIdle      - the keepalives of the three sessions over the live    *)
(*                   scenario;                                             *)
(*   SpecFaults    - wait_dispatch with a predicate that can raise and     *)
(*                   keepalive sends that can fail;                        *)
(*   SpecGate      - scripts/security_gate_check.py.                       *)
(***************************************************************************)
EXTENDS Integers, Sequences, FiniteSets, TLC

VARIABLES
    script,         \* which script runs: "e2e" or "live"
    \* ---- relay verification (main, step 7/9 and step 9/14) ----
    attempts,       \* federation_delivery_attempts rows: [node, event_id, destination] -> row count
    events,         \* federation_events rows in node C's store: event_id -> row count
    a_to_c,         \* local of main: COUNT(*) read from A's ledger
    b_to_c,         \* local of main: COUNT(*) read from B's ledger
    c_has_event,    \* local of main: COUNT(*) read from C's ingestion ledger
    verdict,        \* "pending" before the step, then "PASS" or the AssertionError raised
    \* ---- wait_until ----
    p_pc,           \* "idle", "loop" (at the while test) or "done"
    p_now,          \* time.time(), in ms since the call
    p_deadline,     \* local deadline
    p_desc,         \* argument desc
    p_timeout,      \* argument timeout_s, in ms
    fn_T,           \* the predicate fn is true at and after this instant (Never: at no time)
    fn_mode,        \* what fn does before fn_T: "false", "raise" or "mixed"
    last_error,     \* local last_error of the live script ("none" when unset)
    p_outcome,      \* how the call ended
    p_poll_times,   \* history: the instants at which fn was evaluated
    p_raised,       \* history: fn raised during some poll
    p_exact,        \* history: every sleep so far lasted exactly the poll interval
    \* ---- GatewayClient (one session) ----
    ws,                     \* self.ws: "none" (None) or "open" (a WebSocket object)
    heartbeat_interval_s,   \* self.heartbeat_interval_s, in ms
    last_heartbeat_at,      \* self.last_heartbeat_at, in ms
    backlog,                \* self.backlog
    now,                    \* time.monotonic(), in ms
    link,                   \* the peer's end of the stream: "up" or "down" (closed by the peer)
    g_pc,                   \* "idle", "hello" (connect, in _recv_json_blocking) or "wait" (wait_dispatch loop)
    in_connect,             \* the running wait_dispatch is the READY wait of connect
    event_type,             \* argument event_type of the latest wait_dispatch
    predicate,              \* argument predicate of the latest wait_dispatch
    deadline,               \* local deadline of the running call
    seen,                   \* local seen of wait_dispatch
    wd_outcome,             \* how the latest wait_dispatch ended
    c_outcome,              \* how connect ended ("never" before it is called)
    sent,                   \* history: the op of every frame sent on the stream, in order
    n_arrived,              \* history: number of typed dispatch frames recv() has delivered
    call_recv,              \* history: the typed op-0 frames the latest wait_dispatch read, in order
    pre_backlog,            \* history: self.backlog when the latest wait_dispatch began
    returned,               \* history: the frame each returning wait_dispatch gave its caller
    n_calls,                \* history: number of wait_dispatch calls made by the scenario
    timed_out_ids,          \* history: frames left behind by a call that ended in TimeoutError
    started_at,             \* history: time.monotonic() at construction
    last_read_at,           \* history: time.monotonic() at the latest read attempt (_maybe_heartbeat)
    idle_since_call,        \* history: time the scenario spent away from the session since its latest call
    calls_frequent,         \* history: every call so far began less than one interval after the one before ended
    hello,                  \* local hello of connect: NoFrame until the greeting is read and once connect has returned
    greeted,                \* history: _recv_json_blocking gave connect a frame with op 10
    closed,                 \* history: one record per close() call made on the session
    \* main() of both scripts
    m_pc,                   \* where main is: "body", a loop of the finally block, "exited"
    m_step,                 \* index of the step of the body to run next
    t_i,                    \* index of the next element in the current loop of the finally block
    procs,                  \* local procs: node keys whose Popen object was appended
    log_files,              \* local log_files: node keys whose log file handle was appended
    gateway_clients,        \* local gateway_clients: names of the clients appended (live script)
    proc_state,             \* per node: "unstarted", "running", "exited" or "killed"
    sock,                   \* per client: "unopened", "open" or "closed" (its stream connection)
    body_exc,               \* the exception that left the try block, "none" when it returned 0
    main_result,            \* how main ended: "running", "return 0" or the exception leaving it
    stage,                  \* history: lifecycle stage of the step run last
    failed_in,              \* history: stage of the step that raised, "none" when none did
    observed,               \* history: nodes on which wait_until saw the latest cause arrive
    started,                \* history: nodes whose Popen call returned
    term,                   \* history: per node, what the SIGTERM loop did with it
    kill,                   \* history: per node, what the kill loop did with it
    slept,                  \* history: time.sleep(1.0) of the finally block is over
    cleanup_failed,         \* history: kinds of cleanup calls that raised
    passes,                 \* history: how many times the statements of the finally block were run
    exc_text,               \* str() of the exception that left the try block: "" when it carries no message
    exit_code,              \* exit status of the process, Absent while it runs
    fail_line,              \* what the __main__ block printed to stderr
    \* request_json of both scripts
    rq_call,                \* the arguments of the call: method, url, expected
    rq_resp,                \* history: what the server answered to the request: status and body text
    rq_sent,                \* history: requests that request_json handed to the HTTP library
    rq_out,                 \* how the call ended: a returned pair or a raised exception
    \* the trust topology and the final assertions of main
    tr_calls,               \* number of add_trusted_peer calls of the trust step made so far
    a_store,                \* node A's federated_servers table: per server name "absent", "untrusted" or "trusted"
    peer_names,             \* local peer_names of the final assertions
    trust_verdict,          \* "pending", "PASS" or the message of the AssertionError
    \* the nodes' databases and the harness's direct access to them
    db,                     \* per node and table: "absent", "local" (a row the node wrote) or "clone" (a row copied from A)
    n_access,               \* history: number of direct accesses (db_connect) the harness made
    last_access,            \* history: the latest direct access: what, on which node, how it ended
    \* the two blocking calls, wait_dispatch and wait_until, with the time every iteration takes
    b_call,                 \* the call in progress: "none", "wait_dispatch" or "wait_until"
    b_pc,                   \* "idle", "loop" or "done"
    b_now,                  \* the clock the loop reads (time.monotonic, time.time), ms
    b_deadline,             \* local deadline of the call
    b_env,                  \* what the stream, or fn, does at present
    b_backlog,              \* number of events the call appended to self.backlog
    b_out,                  \* how the call ended
    \* the message scenario of the live script (step 9), in time
    sn_step,                \* index of the statement of the scenario to run next
    sn_now,                 \* the clock, ms since the scenario began
    sn_log,                 \* history: per statement run, when it was called, when it observed its effect, how it ended
    sn_result,              \* "running", "Passed" or "Failed"
    \* the three sessions of the live script side by side (step 11: relationships)
    x_step,                 \* index of the statement of the stretch to run next
    x_socket,               \* per session: the frames that reached its socket and were not read yet
    x_backlog,              \* per session: self.backlog
    x_emitted,              \* events the server still has to send, each with the session it goes to
    x_order,                \* history: the events in the order in which they reached the sockets
    x_returned,             \* history: per wait_dispatch call made, the session and event it returned
    x_result,               \* "running", "Passed", or the call that raised TimeoutError
    \* the keepalives of the three sessions over the live scenario, in time
    k_step,                 \* index of the statement of the scenario to run next
    k_now,                  \* time.monotonic(), ms
    k_conn,                 \* per session: when its connect() was called, Absent before
    k_last,                 \* per session: last_heartbeat_at
    k_open,                 \* the sessions that are connected and not closed
    \* a connected session whose predicate can raise and whose sends can fail
    f_pc,                   \* "idle" or "wait" (in the loop of wait_dispatch)
    f_backlog,              \* self.backlog
    f_call,                 \* the arguments of the latest wait_dispatch: event_type, predicate
    f_now,                  \* time.monotonic(), ms
    f_deadline,             \* local deadline of the running call
    f_last,                 \* self.last_heartbeat_at
    f_sent,                 \* history: number of op 1 frames put on the wire
    f_out,                  \* how the latest wait_dispatch ended
    f_hb,                   \* history: what _maybe_heartbeat did at the latest read attempt
    f_n,                    \* history: number of dispatch frames recv() has delivered
    f_calls,                \* history: number of wait_dispatch calls made
    \* security_gate_check.py
    tracker,                \* SECURITY_REMEDIATION_TRACKER.md: whether it exists, and its table rows
    gate_exit,              \* what main returned, Absent before it ran
    gate_printed            \* what main printed

relayVars == <<attempts, events, a_to_c, b_to_c, c_has_event, verdict>>

pollVars == <<p_pc, p_now, p_deadline, p_desc, p_timeout, fn_T, fn_mode, last_error,
              p_outcome, p_poll_times, p_raised, p_exact>>

kaVars == <<last_read_at, idle_since_call, calls_frequent>>

hsVars == <<hello, greeted>>

gwVars == <<ws, heartbeat_interval_s, last_heartbeat_at, backlog, now, link, g_pc, in_connect,
            event_type, predicate, deadline, seen, wd_outcome, c_outcome, sent, n_arrived,
            call_recv, pre_backlog, returned, n_calls, timed_out_ids, started_at, kaVars,
            hsVars, closed>>

exitVars == <<exit_code, fail_line>>

mainVars == <<m_pc, m_step, t_i, procs, log_files, gateway_clients, proc_state, sock,
              body_exc, main_result, stage, failed_in, observed, started, term, kill, slept,
              cleanup_failed, passes, exc_text, exitVars>>

reqVars == <<rq_call, rq_resp, rq_sent, rq_out>>

trustVars == <<tr_calls, a_store, peer_names, trust_verdict>>

dbVars == <<db, n_access, last_access>>

blockVars == <<b_call, b_pc, b_now, b_deadline, b_env, b_backlog, b_out>>

scenVars == <<sn_step, sn_now, sn_log, sn_result>>

gateVars == <<tracker, gate_exit, gate_printed>>

faultVars == <<f_pc, f_backlog, f_call, f_now, f_deadline, f_last, f_sent, f_out, f_hb, f_n,
               f_calls>>

idleVars == <<k_step, k_now, k_conn, k_last, k_open>>

sessVars == <<x_step, x_socket, x_backlog, x_emitted, x_order, x_returned, x_result>>

vars == <<script, relayVars, pollVars, gwVars, mainVars, reqVars, trustVars, dbVars, blockVars,
          scenVars, sessVars, idleVars, faultVars, gateVars>>

Scripts == {"e2e", "live"}

-----------------------------------------------------------------------------
(* GatewayClient: frames, predicates and the pure helpers                  *)

\* Program constants, in ms.
DefaultHeartbeatMs == 41250
MinHeartbeatMs == 1000
HelloTimeoutMs == 12000
ReadyTimeoutMs == 25000
RecvBlockMs == 700
RecvMinMs == 100
PollOnceMs == 500
SeenCap == 15

\* Bounds of the model.
MaxEvents == 2          \* dispatch events the peer sends on the stream, READY apart
MaxCalls == 2           \* wait_dispatch and close calls the scenario makes on the session
MaxPasses == 2          \* runs of the statements of main's finally block
MaxAccesses == 2        \* direct database accesses of the harness
MaxTrackerRows == 2     \* table rows of the security tracker file
ReadCostMs == 100       \* least time an iteration of wait_dispatch takes when a frame is there at once
GreetingWindowMs == 500 \* the peer greets within this time of construction, or never
ArrivalWindowMs == 1000 \* the peer sends events, and the scenario idles, only this long after construction

\* Values of time.monotonic() at construction (the clock's origin is arbitrary).
StartClocks == {0, 40000}

NoType == "<not a str>"     \* a "t" that is missing or is no str
NotDict == "<not a dict>"   \* a "d" that is missing or is no dict
Absent == -1                \* no heartbeat_interval in the greeting
Malformed == -2             \* a heartbeat_interval that float() rejects (None, a list, "soon")

MkFrame(raw, op, t, d, hb) == [raw |-> raw, op |-> op, t |-> t, d |-> d, hb |-> hb]

WithId(k, n) == [id |-> n, raw |-> k.raw, op |-> k.op, t |-> k.t, d |-> k.d, hb |-> k.hb]

Hello(hb) == MkFrame("object", 10, NoType, "hello", hb)
HelloNoPayload == MkFrame("object", 10, NoType, NotDict, Absent)
HelloNoInterval == MkFrame("object", 10, NoType, "hello", Absent)
Ready == MkFrame("object", 0, "READY", "session", Absent)
Dispatch(t, d) == MkFrame("object", 0, t, d, Absent)
HeartbeatAck == MkFrame("object", 11, NoType, NotDict, Absent)
Untyped == MkFrame("object", 0, NoType, "m1", Absent)
Undecodable == MkFrame("undecodable", -1, NoType, NotDict, Absent)

NoFrame == [id |-> 0, raw |-> "none", op |-> -1, t |-> NoType, d |-> NotDict, hb |-> Absent]

\* What the peer may send while connect waits for the greeting.
HelloPhaseKinds ==
    {Hello(1000), Hello(400), Hello(0), Hello(Malformed), HelloNoPayload, HelloNoInterval,
     Ready, Undecodable}

\* The typed dispatch frames the peer may send once the session is ready.
EventKinds ==
    {Dispatch("MESSAGE_CREATE", "m1"), Dispatch("MESSAGE_CREATE", "m2"),
     Dispatch("RELATIONSHIP_ADD", "m1"), Dispatch("MESSAGE_CREATE", NotDict)}

\* Frames that are no typed dispatch frame: a heartbeat ack, an op-0 frame with
\* no str type tag, bytes that are no JSON object.
NoiseKinds == {HeartbeatAck, Untyped, Undecodable}

\* What the peer may send while wait_dispatch reads: READY once, answering identify.
WaitPhaseKinds == EventKinds \cup NoiseKinds \cup {Ready}

\* predicate arguments: None and lambda d: d.get("id") == "m1"
Predicates == {"None", "id=m1"}

CallTimeoutsMs == {0, 500}

\* The (event_type, predicate) pairs the scenario waits for.
CallPatterns ==
    {<<"MESSAGE_CREATE", "None">>, <<"MESSAGE_CREATE", "id=m1">>}

IsDict(d) == d # NotDict

IsStr(t) == t # NoType

\* predicate is None or predicate(data)
PredicateHolds(P, d) ==
    \/ P = "None"
    \/ P = "id=m1" /\ d = "m1"

\* The test _find_in_backlog applies to one backlog item.
BacklogMatch(item, T, P) ==
    /\ item.op = 0
    /\ item.t = T
    /\ IsDict(item.d)
    /\ PredicateHolds(P, item.d)

RECURSIVE ScanBacklog(_, _, _, _)
ScanBacklog(bl, idx, T, P) ==
    IF idx > Len(bl) THEN 0
    ELSE IF BacklogMatch(bl[idx], T, P) THEN idx
    ELSE ScanBacklog(bl, idx + 1, T, P)

RECURSIVE ScanBacklogDown(_, _, _, _)
ScanBacklogDown(bl, idx, T, P) ==
    IF idx < 1 THEN 0
    ELSE IF BacklogMatch(bl[idx], T, P) THEN idx
    ELSE ScanBacklogDown(bl, idx - 1, T, P)

\* Mutant: the backlog is scanned newest-first.
FindInBacklogNewestFirst(bl, T, P) == ScanBacklogDown(bl, Len(bl), T, P)

\* _find_in_backlog: the index (from 1) of the first matching item, 0 for None.
FindInBacklog(bl, T, P) == ScanBacklog(bl, 1, T, P)

\* Mutant: the item is read (self.backlog[idx]) and not removed.
PopKeeps(bl, idx) == bl

\* self.backlog.pop(idx): the list without item idx.
Pop(bl, idx) == SubSeq(bl, 1, idx - 1) \o SubSeq(bl, idx + 1, Len(bl))

\* Mutant: the event is put at the head of the backlog.
BacklogPrepend(bl, msg) == <<msg>> \o bl

\* self.backlog.append(msg)
BacklogAppend(bl, msg) == Append(bl, msg)

\* Mutant: any frame with op 0 counts as a dispatch event.
IsDispatchAnyType(msg) == msg.op = 0

\* Mutant: only frames with a dict payload count as dispatch events.
IsDispatchWithDict(msg) == msg.op = 0 /\ IsStr(msg.t) /\ IsDict(msg.d)

\* msg.get("op") == 0 and isinstance(msg.get("t"), str)
IsDispatch(msg) == msg.op = 0 /\ IsStr(msg.t)

\* The test the receive loop applies to a dispatch event it just read.
StreamMatch(msg, T, P) ==
    /\ msg.t = T
    /\ IsDict(msg.d)
    /\ PredicateHolds(P, msg.d)

LastN(q, n) == IF Len(q) > n THEN SubSeq(q, Len(q) - n + 1, Len(q)) ELSE q

\* Mutant: the append to seen is missing.
SeenAppendMissing(q, t) == q

\* seen.append(t); if len(seen) > 15: seen = seen[-15:]
SeenAppend(q, t) == LastN(Append(q, t), SeenCap)

\* Mutant: a keepalive is due only once more than the whole interval has passed.
HeartbeatDueLate(n, last, interval) == n - last > interval

\* now - self.last_heartbeat_at >= self.heartbeat_interval_s * 0.9
HeartbeatDue(n, last, interval) == (n - last) * 10 >= interval * 9

Min(a, b) == IF a < b THEN a ELSE b
Max(a, b) == IF a > b THEN a ELSE b

\* _maybe_heartbeat sends op 1 now (the send fails, swallowed, when the peer is gone).
HeartbeatSent ==
    /\ ws # "none"
    /\ HeartbeatDue(now, last_heartbeat_at, heartbeat_interval_s)
    /\ link = "up"

SentAfterHeartbeat == IF HeartbeatSent THEN Append(sent, 1) ELSE sent

\* Mutant: the send leaves last_heartbeat_at as it was.
LastAfterHeartbeatStale == last_heartbeat_at

\* self.last_heartbeat_at = now, reached only after a send that did not raise.
LastAfterHeartbeat == IF HeartbeatSent THEN now ELSE last_heartbeat_at

WdOutcome(exc, msg, sn, src) == [exc |-> exc, msg |-> msg, seen |-> sn, src |-> src]

\* What one returning wait_dispatch(T, P) gave its caller, and from where.
Delivery(msg, T, P, src) == [msg |-> msg, T |-> T, P |-> P, src |-> src]

WdPending == WdOutcome("pending", NoFrame, <<>>, "none")

\* A well-formed dispatch frame on the wire: a JSON object, op 0, a str type tag.
TypedDispatchFrame(f) == f.raw = "object" /\ f.op = 0 /\ f.t # NoType

\* Dispatch events delivered so far, READY apart.
DeliveredEvents == IF c_outcome = "ok" THEN n_arrived - 1 ELSE n_arrived

\* The peer can send frame k now.
CanDeliver(k) ==
    /\ link = "up"
    /\ now - started_at < ArrivalWindowMs
    /\ k \in EventKinds => DeliveredEvents < MaxEvents
    /\ k = Ready => (in_connect /\ g_pc = "wait")

-----------------------------------------------------------------------------
(* GatewayClient: operations                                               *)

\* Mutant: a cached event is returned only while the session has a connection.
CachedReturnsIfOpen(idx) == idx # 0 /\ ws # "none"

\* cached = self._find_in_backlog(...); if cached is not None: return cached
CachedReturns(idx) == idx # 0

\* wait_dispatch up to its loop: the backlog scan, then deadline and seen.
WaitDispatchEnter(T, P, timeout, inConn) ==
    LET idx == FindInBacklog(backlog, T, P) IN
    /\ event_type' = T
    /\ predicate' = P
    /\ in_connect' = inConn
    /\ pre_backlog' = backlog
    /\ call_recv' = <<>>
    /\ IF CachedReturns(idx)
       THEN /\ backlog' = Pop(backlog, idx)
            /\ wd_outcome' = WdOutcome("none", backlog[idx], <<>>, "backlog")
            /\ returned' = Append(returned, Delivery(backlog[idx], T, P, "backlog"))
            /\ g_pc' = "idle"
            /\ c_outcome' = IF inConn THEN "ok" ELSE c_outcome
            /\ UNCHANGED <<deadline, seen>>
       ELSE /\ deadline' = now + timeout
            /\ seen' = <<>>
            /\ g_pc' = "wait"
            /\ wd_outcome' = WdPending
            /\ c_outcome' = IF inConn THEN "connecting" ELSE c_outcome
            /\ UNCHANGED <<backlog, returned>>

\* connect: websocket.create_connection succeeds; _recv_json_blocking(12.0) begins.
Connect ==
    /\ g_pc = "idle"
    /\ c_outcome = "never"
    /\ closed = <<>>
    /\ ws' = "open"
    /\ g_pc' = "hello"
    /\ deadline' = now + HelloTimeoutMs
    /\ c_outcome' = "connecting"
    /\ UNCHANGED <<script, gateVars, faultVars, idleVars, sessVars, scenVars, blockVars, dbVars, trustVars, reqVars, mainVars, relayVars, pollVars, heartbeat_interval_s, last_heartbeat_at,
                   backlog, now, link, in_connect, event_type, predicate, seen, wd_outcome,
                   sent, n_arrived, call_recv, pre_backlog, returned, n_calls, timed_out_ids,
                   started_at,
                   kaVars, hsVars, closed>>

\* connect: websocket.create_connection raises.
ConnectRefused ==
    /\ g_pc = "idle"
    /\ c_outcome = "never"
    /\ closed = <<>>
    /\ c_outcome' = "ConnectionError"
    /\ UNCHANGED <<script, gateVars, faultVars, idleVars, sessVars, scenVars, blockVars, dbVars, trustVars, reqVars, mainVars, relayVars, pollVars, ws, heartbeat_interval_s, last_heartbeat_at,
                   backlog, now, link, g_pc, in_connect, event_type, predicate, deadline,
                   seen, wd_outcome, sent, n_arrived, call_recv, pre_backlog, returned,
                   n_calls, timed_out_ids, started_at,
                   kaVars, hsVars, closed>>

\* _recv_json_blocking, one iteration: recv() times out.
HelloSilence ==
    /\ g_pc = "hello"
    /\ now < deadline
    /\ link = "up"
    /\ sent' = SentAfterHeartbeat
    /\ last_heartbeat_at' = LastAfterHeartbeat
    /\ now' = now + Min(RecvBlockMs, Max(RecvMinMs, deadline - now))
    /\ last_read_at' = now
    /\ UNCHANGED <<script, gateVars, faultVars, idleVars, sessVars, scenVars, blockVars, dbVars, trustVars, reqVars, mainVars, relayVars, pollVars, ws, heartbeat_interval_s, backlog, link, g_pc,
                   in_connect, event_type, predicate, deadline, seen, wd_outcome, c_outcome,
                   n_arrived, call_recv, pre_backlog, returned, n_calls, timed_out_ids,
                   started_at,
                   idle_since_call, calls_frequent, hsVars, closed>>

\* _recv_json_blocking, one iteration: recv() raises WebSocketConnectionClosedException.
HelloClosed ==
    /\ g_pc = "hello"
    /\ now < deadline
    /\ link = "down"
    /\ sent' = SentAfterHeartbeat
    /\ last_heartbeat_at' = LastAfterHeartbeat
    /\ g_pc' = "idle"
    /\ c_outcome' = "RuntimeError"
    /\ last_read_at' = now
    /\ UNCHANGED <<script, gateVars, faultVars, idleVars, sessVars, scenVars, blockVars, dbVars, trustVars, reqVars, mainVars, relayVars, pollVars, ws, heartbeat_interval_s, backlog, now, link,
                   in_connect, event_type, predicate, deadline, seen, wd_outcome, n_arrived,
                   call_recv, pre_backlog, returned, n_calls, timed_out_ids, started_at,
                   idle_since_call, calls_frequent, hsVars, closed>>

\* Mutant: a heartbeat_interval that float() rejects is replaced by the default.
IntervalMsLenient(msg) ==
    IF IsDict(msg.d) /\ msg.hb # Absent /\ msg.hb # Malformed THEN msg.hb
    ELSE DefaultHeartbeatMs

\* interval_ms of connect: the greeting's heartbeat_interval, or the default.
IntervalMs(msg) ==
    IF IsDict(msg.d) /\ msg.hb # Absent THEN msg.hb ELSE DefaultHeartbeatMs

\* Mutant: the interval is taken from the greeting without the floor of 1 s.
NegotiatedIntervalNoFloor(msg) == IntervalMs(msg)

\* heartbeat_interval_s computed by connect from the greeting, in ms.
NegotiatedInterval(msg) == Max(MinHeartbeatMs, IntervalMs(msg))

\* Mutant: any JSON object is taken for the greeting.
IsHelloAnyOp(msg) == TRUE

\* hello.get("op") == 10
IsHello(msg) == msg.op = 10

\* _recv_json_blocking, one iteration: recv() delivers frame k; when it is a JSON
\* object connect goes on: the op test, the interval, identify, wait_dispatch("READY").
HelloFrame(k) ==
    /\ g_pc = "hello"
    /\ now < deadline
    /\ link = "up"
    /\ now - started_at < GreetingWindowMs
    /\ IF k.raw # "object"
       THEN /\ sent' = SentAfterHeartbeat
            /\ last_heartbeat_at' = LastAfterHeartbeat
            /\ UNCHANGED <<heartbeat_interval_s, backlog, g_pc, in_connect, event_type,
                           predicate, deadline, seen, wd_outcome, c_outcome, call_recv,
                           pre_backlog, returned>>
       ELSE IF ~IsHello(k)
       THEN /\ sent' = SentAfterHeartbeat
            /\ last_heartbeat_at' = LastAfterHeartbeat
            /\ g_pc' = "idle"
            /\ c_outcome' = "RuntimeError"
            /\ UNCHANGED <<heartbeat_interval_s, backlog, in_connect, event_type, predicate,
                           deadline, seen, wd_outcome, call_recv, pre_backlog, returned>>
       ELSE IF IntervalMs(k) = Malformed
       THEN /\ sent' = SentAfterHeartbeat
            /\ last_heartbeat_at' = LastAfterHeartbeat
            /\ g_pc' = "idle"
            /\ c_outcome' = "ValueError"
            /\ UNCHANGED <<heartbeat_interval_s, backlog, in_connect, event_type, predicate,
                           deadline, seen, wd_outcome, call_recv, pre_backlog, returned>>
       ELSE /\ heartbeat_interval_s' = NegotiatedInterval(k)
            /\ last_heartbeat_at' = now
            /\ sent' = Append(SentAfterHeartbeat, 2)
            /\ WaitDispatchEnter("READY", "None", ReadyTimeoutMs, TRUE)
    /\ hello' = IF k.raw = "object" THEN WithId(k, 0) ELSE hello
    /\ greeted' = (k.raw = "object" /\ k.op = 10)
    /\ last_read_at' = now
    /\ UNCHANGED <<script, gateVars, faultVars, idleVars, sessVars, scenVars, blockVars, dbVars, trustVars, reqVars, mainVars, relayVars, pollVars, ws, now, link, n_arrived, n_calls,
                   timed_out_ids, started_at,
                   idle_since_call, calls_frequent, closed>>

\* _recv_json_blocking: the loop ends, TimeoutError.
HelloTimeout ==
    /\ g_pc = "hello"
    /\ now >= deadline
    /\ g_pc' = "idle"
    /\ c_outcome' = "TimeoutError"
    /\ UNCHANGED <<script, gateVars, faultVars, idleVars, sessVars, scenVars, blockVars, dbVars, trustVars, reqVars, mainVars, relayVars, pollVars, ws, heartbeat_interval_s, last_heartbeat_at,
                   backlog, now, link, in_connect, event_type, predicate, deadline, seen,
                   wd_outcome, sent, n_arrived, call_recv, pre_backlog, returned, n_calls,
                   timed_out_ids, started_at,
                   kaVars, hsVars, closed>>

\* The scenario goes on using the session: connect() returned and no call on it
\* has found the connection lost.
SessionInUse == c_outcome = "ok" /\ wd_outcome.exc # "RuntimeError"

\* Calls the scenario has made on the session: wait_dispatch and close.
CallsMade == n_calls + Len(closed)

\* wait_dispatch(event_type, predicate, timeout_s), called by the scenario.
WaitDispatchCall(T, P, timeout) ==
    /\ g_pc = "idle"
    /\ SessionInUse
    /\ CallsMade < MaxCalls
    /\ n_calls' = n_calls + 1
    /\ WaitDispatchEnter(T, P, timeout, FALSE)
    /\ calls_frequent' = (calls_frequent /\ idle_since_call < heartbeat_interval_s)
    /\ idle_since_call' = 0
    /\ UNCHANGED <<script, gateVars, faultVars, idleVars, sessVars, scenVars, blockVars, dbVars, trustVars, reqVars, mainVars, relayVars, pollVars, ws, heartbeat_interval_s, last_heartbeat_at,
                   now, link, sent, n_arrived, timed_out_ids, started_at,
                   last_read_at, hsVars, closed>>

\* How connect ends when its READY wait ends with exc.
ConnectOutcome(exc) == IF in_connect THEN exc ELSE c_outcome

\* wait_dispatch loop, _poll_once: self.ws is None, RuntimeError.
WaitPollNotConnected ==
    /\ g_pc = "wait"
    /\ now < deadline
    /\ ws = "none"
    /\ g_pc' = "idle"
    /\ wd_outcome' = WdOutcome("RuntimeError", NoFrame, seen, "none")
    /\ c_outcome' = ConnectOutcome("RuntimeError")
    /\ UNCHANGED <<script, gateVars, faultVars, idleVars, sessVars, scenVars, blockVars, dbVars, trustVars, reqVars, mainVars, relayVars, pollVars, ws, heartbeat_interval_s, last_heartbeat_at,
                   backlog, now, link, in_connect, event_type, predicate, deadline, seen,
                   sent, n_arrived, call_recv, pre_backlog, returned, n_calls, timed_out_ids,
                   started_at,
                   kaVars, hsVars, closed>>

\* wait_dispatch loop, _poll_once: recv() times out, None, continue.
WaitPollSilence ==
    /\ g_pc = "wait"
    /\ now < deadline
    /\ ws # "none"
    /\ link = "up"
    /\ sent' = SentAfterHeartbeat
    /\ last_heartbeat_at' = LastAfterHeartbeat
    /\ now' = now + PollOnceMs
    /\ last_read_at' = now
    /\ UNCHANGED <<script, gateVars, faultVars, idleVars, sessVars, scenVars, blockVars, dbVars, trustVars, reqVars, mainVars, relayVars, pollVars, ws, heartbeat_interval_s, backlog, link, g_pc,
                   in_connect, event_type, predicate, deadline, seen, wd_outcome, c_outcome,
                   n_arrived, call_recv, pre_backlog, returned, n_calls, timed_out_ids,
                   started_at,
                   idle_since_call, calls_frequent, hsVars, closed>>

\* Mutant: the closed connection is reported as the call running out of time.
PollClosedRaisesTimeout == "TimeoutError"

\* except websocket.WebSocketConnectionClosedException as exc: raise RuntimeError(...)
PollClosedRaises == "RuntimeError"

\* wait_dispatch loop, _poll_once: recv() raises WebSocketConnectionClosedException.
WaitPollClosed ==
    /\ g_pc = "wait"
    /\ now < deadline
    /\ ws # "none"
    /\ link = "down"
    /\ sent' = SentAfterHeartbeat
    /\ last_heartbeat_at' = LastAfterHeartbeat
    /\ g_pc' = "idle"
    /\ wd_outcome' = WdOutcome(PollClosedRaises, NoFrame, seen, "none")
    /\ c_outcome' = ConnectOutcome(PollClosedRaises)
    /\ last_read_at' = now
    /\ UNCHANGED <<script, gateVars, faultVars, idleVars, sessVars, scenVars, blockVars, dbVars, trustVars, reqVars, mainVars, relayVars, pollVars, ws, heartbeat_interval_s, backlog, now, link,
                   in_connect, event_type, predicate, deadline, seen, n_arrived, call_recv,
                   pre_backlog, returned, n_calls, timed_out_ids, started_at,
                   idle_since_call, calls_frequent, hsVars, closed>>

\* wait_dispatch loop, one iteration in which recv() delivers frame k.
WaitPollFrame(k) ==
    /\ g_pc = "wait"
    /\ now < deadline
    /\ ws # "none"
    /\ CanDeliver(k)
    /\ sent' = SentAfterHeartbeat
    /\ last_heartbeat_at' = LastAfterHeartbeat
    /\ n_arrived' = IF TypedDispatchFrame(k) THEN n_arrived + 1 ELSE n_arrived
    /\ LET msg == WithId(k, n_arrived + 1) IN
       /\ call_recv' = IF TypedDispatchFrame(msg) THEN Append(call_recv, msg) ELSE call_recv
       /\ IF k.raw = "object" /\ IsDispatch(msg)
          THEN LET sn == SeenAppend(seen, msg.t) IN
               IF StreamMatch(msg, event_type, predicate)
               THEN /\ g_pc' = "idle"
                    /\ seen' = sn
                    /\ wd_outcome' = WdOutcome("none", msg, sn, "stream")
                    /\ returned' = Append(returned,
                                          Delivery(msg, event_type, predicate, "stream"))
                    /\ c_outcome' = ConnectOutcome("ok")
                    /\ UNCHANGED backlog
               ELSE /\ seen' = sn
                    /\ backlog' = BacklogAppend(backlog, msg)
                    /\ UNCHANGED <<g_pc, wd_outcome, returned, c_outcome>>
          ELSE UNCHANGED <<g_pc, seen, wd_outcome, returned, c_outcome, backlog>>
    /\ hello' = IF g_pc' = "idle" THEN NoFrame ELSE hello
    /\ last_read_at' = now
    /\ UNCHANGED <<script, gateVars, faultVars, idleVars, sessVars, scenVars, blockVars, dbVars, trustVars, reqVars, mainVars, relayVars, pollVars, ws, heartbeat_interval_s, now, link,
                   in_connect, event_type, predicate, deadline, pre_backlog,
                   n_calls, timed_out_ids, started_at,
                   idle_since_call, calls_frequent, greeted, closed>>

\* wait_dispatch: the loop ends, TimeoutError naming the types in seen.
WaitTimeout ==
    /\ g_pc = "wait"
    /\ now >= deadline
    /\ g_pc' = "idle"
    /\ wd_outcome' = WdOutcome("TimeoutError", NoFrame, seen, "none")
    /\ c_outcome' = ConnectOutcome("TimeoutError")
    /\ timed_out_ids' = timed_out_ids \cup {call_recv[i].id : i \in DOMAIN call_recv}
    /\ UNCHANGED <<script, gateVars, faultVars, idleVars, sessVars, scenVars, blockVars, dbVars, trustVars, reqVars, mainVars, relayVars, pollVars, ws, heartbeat_interval_s, last_heartbeat_at,
                   backlog, now, link, in_connect, event_type, predicate, deadline, seen,
                   sent, n_arrived, call_recv, pre_backlog, returned, n_calls, started_at,
                   kaVars, hsVars, closed>>

\* How ws.close() can end.
StreamCloseOutcomes == {"none", "OSError"}

\* Mutant: an exception of ws.close() leaves close().
CloseOutcomePropagates(w, inner) == IF w # "none" THEN inner ELSE "none"

\* How close() ends: ws.close() is called only on a handle, and "except
\* Exception: pass" swallows what it raises.
CloseOutcome(w, inner) ==
    IF w # "none" THEN (IF inner # "none" THEN "none" ELSE inner) ELSE "none"

\* self.ws after close(): None, unless an exception left before the assignment.
WsAfterClose(w, exc) == IF exc = "none" THEN "none" ELSE w

\* close(), called while no other method of the session runs; inner is how
\* ws.close() ends when it is called.
Close(inner) ==
    LET exc == CloseOutcome(ws, inner) IN
    /\ g_pc = "idle"
    /\ CallsMade < MaxCalls
    /\ ws = "none" => inner = "none"
    /\ ws' = WsAfterClose(ws, exc)
    /\ closed' = Append(closed, [had |-> ws,
                                 inner |-> IF ws # "none" THEN inner ELSE "skipped",
                                 exc |-> exc])
    /\ UNCHANGED <<script, gateVars, faultVars, idleVars, sessVars, scenVars, blockVars, dbVars, trustVars, reqVars, mainVars, relayVars, pollVars, heartbeat_interval_s, last_heartbeat_at,
                   backlog, now, link, g_pc, in_connect, event_type, predicate, deadline,
                   seen, wd_outcome, c_outcome, sent, n_arrived, call_recv, pre_backlog,
                   returned, n_calls, timed_out_ids, started_at,
                   kaVars, hsVars>>

\* The scenario does something else between two calls on this session, for as
\* long as one read of the stream lasts.
Idle ==
    /\ g_pc = "idle"
    /\ SessionInUse
    /\ CallsMade < MaxCalls
    /\ closed = <<>>
    /\ now - started_at <= ArrivalWindowMs
    /\ now' = now + PollOnceMs
    /\ idle_since_call' = idle_since_call + PollOnceMs
    /\ UNCHANGED <<script, gateVars, faultVars, idleVars, sessVars, scenVars, blockVars, dbVars, trustVars, reqVars, mainVars, relayVars, pollVars, ws, heartbeat_interval_s, last_heartbeat_at,
                   backlog, link, g_pc, in_connect, event_type, predicate, deadline, seen,
                   wd_outcome, c_outcome, sent, n_arrived, call_recv, pre_backlog, returned,
                   n_calls, timed_out_ids, started_at,
                   last_read_at, calls_frequent, hsVars, closed>>

\* The peer closes the stream.
PeerCloses ==
    /\ ws = "open"
    /\ g_pc # "idle"
    /\ link = "up"
    /\ now - started_at < ArrivalWindowMs
    /\ link' = "down"
    /\ UNCHANGED <<script, gateVars, faultVars, idleVars, sessVars, scenVars, blockVars, dbVars, trustVars, reqVars, mainVars, relayVars, pollVars, ws, heartbeat_interval_s, last_heartbeat_at,
                   backlog, now, g_pc, in_connect, event_type, predicate, deadline, seen,
                   wd_outcome, c_outcome, sent, n_arrived, call_recv, pre_backlog, returned,
                   n_calls, timed_out_ids, started_at,
                   kaVars, hsVars, closed>>

\* GatewayClient.__init__
InitGwVars ==
    /\ ws = "none"
    /\ heartbeat_interval_s = DefaultHeartbeatMs
    /\ last_heartbeat_at = 0
    /\ backlog = <<>>
    /\ now \in StartClocks
    /\ started_at = now
    /\ link = "up"
    /\ g_pc = "idle"
    /\ in_connect = FALSE
    /\ event_type = ""
    /\ predicate = "None"
    /\ deadline = 0
    /\ seen = <<>>
    /\ wd_outcome = WdPending
    /\ c_outcome = "never"
    /\ sent = <<>>
    /\ n_arrived = 0
    /\ call_recv = <<>>
    /\ pre_backlog = <<>>
    /\ returned = <<>>
    /\ n_calls = 0
    /\ timed_out_ids = {}
    /\ last_read_at = 0
    /\ idle_since_call = 0
    /\ calls_frequent = TRUE
    /\ hello = NoFrame
    /\ greeted = FALSE
    /\ closed = <<>>

-----------------------------------------------------------------------------
(* request_json of both scripts                                            *)

Methods == {"GET", "POST"}

Urls == {"http://127.0.0.1:18081/api/v1/guilds", "http://127.0.0.1:18082/health"}

\* The values of expected= at the call sites, and the default.
ExpectedSets == {{200, 201, 202, 204}, {200}, {201}, {204}}

Statuses == {200, 201, 204, 404, 500}

Bodies == {"", " \n", "{}", "{\"id\": 7}\n", "not found\n"}

\* str.strip() on the body texts above.
Strip(b) ==
    CASE b = " \n" -> ""
      [] b = "{\"id\": 7}\n" -> "{\"id\": 7}"
      [] b = "not found\n" -> "not found"
      [] OTHER -> b

\* json.loads / Response.json accept the text.
IsJson(t) == t \in {"{}", "{\"id\": 7}"}

NoCall == [method |-> "", url |-> "", expected |-> {}]

NoResponse == [status |-> Absent, text |-> ""]

NoOut == [kind |-> "pending", type |-> "", method |-> "", url |-> "", status |-> Absent,
          body |-> ""]

\* return status, value
ReturnedPair(status, value) ==
    [kind |-> "return", type |-> "", method |-> "", url |-> "", status |-> status,
     body |-> value]

\* An exception and what its message names ("" and Absent: not named).
RaisedError(type, method, url, status, body) ==
    [kind |-> "raise", type |-> type, method |-> method, url |-> url, status |-> status,
     body |-> body]

\* What the HTTP library does with a response before request_json sees it:
\* requests.request returns it whatever the status; urllib.request.urlopen
\* raises urllib.error.HTTPError for a status outside 200..299, so the with
\* block is left before status and body are assigned.
LibraryRaises(s, status) == s = "e2e" /\ ~(200 <= status /\ status < 300)

\* The statements after the response is there: the status test, the empty
\* body, the parsed body.
AfterResponse(call, resp) ==
    IF resp.status \notin call.expected
    THEN RaisedError("RuntimeError", call.method, call.url, resp.status, Strip(resp.text))
    ELSE IF Strip(resp.text) = ""
         THEN ReturnedPair(resp.status, "{}")
         ELSE IF IsJson(Strip(resp.text))
              THEN ReturnedPair(resp.status, Strip(resp.text))
              ELSE RaisedError("JSONDecodeError", "", "", Absent, "")

\* request_json(method, url, expected=...) with the server answering resp.
\* The message of HTTPError is "HTTP Error <code>: <reason>".
RequestJson(method, url, expected, resp) ==
    /\ rq_out = NoOut
    /\ rq_call' = [method |-> method, url |-> url, expected |-> expected]
    /\ rq_resp' = resp
    /\ rq_sent' = rq_sent + 1
    /\ rq_out' = IF LibraryRaises(script, resp.status)
                 THEN RaisedError("HTTPError", "", "", resp.status, "")
                 ELSE AfterResponse(rq_call', resp)
    /\ UNCHANGED <<script, gateVars, faultVars, idleVars, sessVars, scenVars, blockVars, dbVars, trustVars, relayVars, pollVars, gwVars, mainVars>>

\* request_json(...) with no answer: the connection is refused or the
\* library's timeout (15 s, 10 s) runs out.
RequestJsonUnanswered(method, url, expected) ==
    /\ rq_out = NoOut
    /\ rq_call' = [method |-> method, url |-> url, expected |-> expected]
    /\ rq_resp' = NoResponse
    /\ rq_sent' = rq_sent + 1
    /\ rq_out' = RaisedError(IF script = "live" THEN "ConnectionError" ELSE "URLError", "", "",
                        Absent, "")
    /\ UNCHANGED <<script, gateVars, faultVars, idleVars, sessVars, scenVars, blockVars, dbVars, trustVars, relayVars, pollVars, gwVars, mainVars>>

InitReqVars ==
    /\ rq_call = NoCall
    /\ rq_resp = NoResponse
    /\ rq_sent = 0
    /\ rq_out = NoOut

-----------------------------------------------------------------------------
(* The trust topology and the final assertions of main                     *)

\* NODES[k].server_name
ServerName == [a |-> "node-a.test", b |-> "node-b.test", c |-> "node-c.test"]

\* The names a row of federated_servers on A can carry, in the order of
\* ORDER BY server_name.
NameOrder == <<"node-b.test", "node-c.test">>

PeerServerNames == {NameOrder[i] : i \in DOMAIN NameOrder}

\* Mutant: the trust step also makes C a trusted peer of A.
TrustCallsDirect ==
    <<<<"a", "b">>, <<"a", "c">>, <<"b", "a">>, <<"b", "c">>, <<"c", "b">>, <<"c", "a">>>>

\* The add_trusted_peer calls of the trust step, in order: source and peer.
TrustCalls == <<<<"a", "b">>, <<"b", "a">>, <<"b", "c">>, <<"c", "b">>, <<"c", "a">>>>

\* The directed trust edges the calls made so far have created: <<x, y>> when
\* node x was told to trust y.
TrustEdges == {TrustCalls[i] : i \in 1..tr_calls}

\* The trusted peers the scenario configures on node A.
ConfiguredForA == {ServerName[TrustCalls[i][2]] : i \in {j \in DOMAIN TrustCalls : TrustCalls[j][1] = "a"}}

\* SELECT server_name FROM federated_servers WHERE trusted = TRUE [ORDER BY server_name]
TrustedPeers(store) == SelectSeq(NameOrder, LAMBDA n : store[n] = "trusted")

Range(q) == {q[i] : i \in DOMAIN q}

\* federation_e2e_validation.py: if peer_names != [NODES["b"].server_name]: raise
FinalVerdictE2E(names) ==
    IF names # <<ServerName["b"]>> THEN "Unexpected A trusted peers" ELSE "PASS"

\* federation_live_fundamentals_validation.py: if NODES["b"].server_name not in
\* peer_names: raise
FinalVerdictLive(names) ==
    IF ServerName["b"] \notin Range(names) THEN "A is missing trusted peer" ELSE "PASS"

\* The next add_trusted_peer call of the trust step: POST .../federation/v1/servers
\* with trusted = true on the source node, which stores the row.
AddTrustedPeer ==
    /\ tr_calls < Len(TrustCalls)
    /\ trust_verdict = "pending"
    /\ tr_calls' = tr_calls + 1
    /\ a_store' = IF TrustCalls[tr_calls'][1] = "a"
                  THEN [a_store EXCEPT ![ServerName[TrustCalls[tr_calls'][2]]] = "trusted"]
                  ELSE a_store
    /\ UNCHANGED <<script, gateVars, faultVars, idleVars, sessVars, scenVars, blockVars, dbVars, relayVars, pollVars, gwVars, mainVars, reqVars, peer_names,
                   trust_verdict>>

\* Node A writes a row of federated_servers on its own account (discovery, an
\* inbound federation request, an administrator), trusted or not.
NodeStoresPeer(n, flag) ==
    /\ trust_verdict = "pending"
    /\ a_store[n] # flag
    /\ a_store' = [a_store EXCEPT ![n] = flag]
    /\ UNCHANGED <<script, gateVars, faultVars, idleVars, sessVars, scenVars, blockVars, dbVars, relayVars, pollVars, gwVars, mainVars, reqVars, tr_calls, peer_names,
                   trust_verdict>>

\* The final assertions: the query on A's store and the test of its result.
FinalAssertions ==
    /\ tr_calls = Len(TrustCalls)
    /\ trust_verdict = "pending"
    /\ peer_names' = TrustedPeers(a_store)
    /\ trust_verdict' = IF script = "e2e" THEN FinalVerdictE2E(peer_names')
                        ELSE FinalVerdictLive(peer_names')
    /\ UNCHANGED <<script, gateVars, faultVars, idleVars, sessVars, scenVars, blockVars, dbVars, relayVars, pollVars, gwVars, mainVars, reqVars, tr_calls, a_store>>

InitTrustVars ==
    /\ tr_calls = 0
    /\ a_store = [n \in PeerServerNames |-> "absent"]
    /\ peer_names = <<>>
    /\ trust_verdict = "pending"

-----------------------------------------------------------------------------
(* The nodes' databases and the harness's direct access to them             *)

\* BASE_DIR / node_key / "paracord.db"
DbNodes == {"a", "b", "c"}

\* The tables clone_shared_guild_and_channel(s) copies; one row each.
Tables == {"spaces", "channels", "roles"}

NoAccess == [op |-> "none", node |-> "", out |-> ""]

\* Mutant: INSERT OR REPLACE.
InsertOrReplace(old) == "clone"

\* INSERT OR IGNORE INTO table ...: a row whose key is taken stays as it is.
InsertOrIgnore(old) == IF old = "absent" THEN "clone" ELSE old

\* The rows of A that the clone function needs are there: it raises
\* RuntimeError otherwise, and the with statement rolls back what the live
\* script has inserted before it met the missing channel.
SourceComplete(d) == d["a"]["spaces"] # "absent" /\ d["a"]["channels"] # "absent"

\* The tables of which the clone function found a row on A.
Copied(d) == {t \in Tables : d["a"][t] # "absent"}

\* A node writes a row of one of its tables: the control-plane API on A
\* (create guild, create channel), anything the node does by itself elsewhere.
NodeWrites(n, t) ==
    /\ db[n][t] = "absent"
    /\ db' = [db EXCEPT ![n][t] = "local"]
    /\ UNCHANGED <<script, gateVars, faultVars, idleVars, sessVars, scenVars, blockVars, relayVars, pollVars, gwVars, mainVars, reqVars, trustVars, n_access,
                   last_access>>

\* A query of the harness on the database of node n: mapped_message_content,
\* the delivery-attempt and ingestion counts, the trusted peers.
InspectorQuery(n) ==
    /\ n_access < MaxAccesses
    /\ n_access' = n_access + 1
    /\ last_access' = [op |-> "query", node |-> n, out |-> "rows"]
    /\ UNCHANGED <<script, gateVars, faultVars, idleVars, sessVars, scenVars, blockVars, relayVars, pollVars, gwVars, mainVars, reqVars, trustVars, db>>

\* clone_shared_guild_and_channel(s)(..., target_node_key): reads A, inserts
\* into the target's database, commits.
CloneSharedGuild(target) ==
    /\ n_access < MaxAccesses
    /\ n_access' = n_access + 1
    /\ IF SourceComplete(db)
       THEN /\ db' = [db EXCEPT ![target] =
                        [t \in Tables |-> IF t \in Copied(db) THEN InsertOrIgnore(@[t])
                                          ELSE @[t]]]
            /\ last_access' = [op |-> "clone", node |-> target, out |-> "committed"]
       ELSE /\ UNCHANGED db
            /\ last_access' = [op |-> "clone", node |-> target, out |-> "RuntimeError"]
    /\ UNCHANGED <<script, gateVars, faultVars, idleVars, sessVars, scenVars, blockVars, relayVars, pollVars, gwVars, mainVars, reqVars, trustVars>>

InitDbVars ==
    /\ db = [n \in DbNodes |-> [t \in Tables |-> "absent"]]
    /\ n_access = 0
    /\ last_access = NoAccess

-----------------------------------------------------------------------------
(* main() of both scripts: the body of the try block, one action per step,  *)
(* and the finally block, one action per loop iteration                     *)

\* NODES, and the GatewayClient objects of the live script.
Nodes == {"a", "b", "c"}
Clients == {"guest2", "admin-a", "guest1"}

\* A step of the body: what it does, on what, the lifecycle stage it belongs
\* to, and the exception it raises when it fails.
MkStep(kind, arg, st, exc) == [kind |-> kind, arg |-> arg, stage |-> st, exc |-> exc]

\* The body of main in the live script, steps 1 to 14; what follows the edit of
\* the message (reactions, deletion, steps 10 to 13) is one step.
LiveSteps ==
    <<MkStep("prepare", "", "Provisioning", "RuntimeError"),
      MkStep("start", "a", "Provisioning", "OSError"),
      MkStep("start", "b", "Provisioning", "OSError"),
      MkStep("start", "c", "Provisioning", "OSError"),
      MkStep("health", "", "Provisioning", "TimeoutError"),
      MkStep("register", "", "Provisioning", "RuntimeError"),
      MkStep("connect", "guest2", "Provisioning", "TimeoutError"),
      MkStep("trust", "", "TrustLinking", "RuntimeError"),
      MkStep("act", "guild", "Acting", "RuntimeError"),
      MkStep("connect", "admin-a", "Acting", "TimeoutError"),
      MkStep("act", "join", "Acting", "RuntimeError"),
      MkStep("realtime", "GUILD_MEMBER_ADD", "AwaitingRealtime", "TimeoutError"),
      MkStep("connect", "guest1", "AwaitingRealtime", "TimeoutError"),
      MkStep("act", "message", "Acting", "RuntimeError"),
      MkStep("realtime", "MESSAGE_CREATE", "AwaitingRealtime", "TimeoutError"),
      MkStep("converge", "b", "AwaitingConvergence", "TimeoutError"),
      MkStep("converge", "c", "AwaitingConvergence", "TimeoutError"),
      MkStep("relay", "", "VerifyingRelay", "AssertionError"),
      MkStep("act", "edit", "Acting", "RuntimeError"),
      MkStep("realtime", "MESSAGE_UPDATE", "AwaitingRealtime", "TimeoutError"),
      MkStep("converge", "b", "AwaitingConvergence", "TimeoutError"),
      MkStep("converge", "c", "AwaitingConvergence", "TimeoutError"),
      MkStep("act", "rest", "Acting", "RuntimeError"),
      MkStep("final", "", "VerifyingRelay", "AssertionError")>>

\* The body of main in the e2e script, steps 1 to 9; what follows the edit of
\* the message (reactions, member join and leave, deletion) is one step.
E2ESteps ==
    <<MkStep("prepare", "", "Provisioning", "RuntimeError"),
      MkStep("start", "a", "Provisioning", "OSError"),
      MkStep("start", "b", "Provisioning", "OSError"),
      MkStep("start", "c", "Provisioning", "OSError"),
      MkStep("health", "", "Provisioning", "TimeoutError"),
      MkStep("register", "", "Provisioning", "RuntimeError"),
      MkStep("trust", "", "TrustLinking", "RuntimeError"),
      MkStep("act", "guild", "Acting", "RuntimeError"),
      MkStep("act", "message", "Acting", "RuntimeError"),
      MkStep("converge", "b", "AwaitingConvergence", "TimeoutError"),
      MkStep("converge", "c", "AwaitingConvergence", "TimeoutError"),
      MkStep("relay", "", "VerifyingRelay", "AssertionError"),
      MkStep("act", "edit", "Acting", "RuntimeError"),
      MkStep("converge", "b", "AwaitingConvergence", "TimeoutError"),
      MkStep("converge", "c", "AwaitingConvergence", "TimeoutError"),
      MkStep("act", "rest", "Acting", "RuntimeError"),
      MkStep("final", "", "VerifyingRelay", "AssertionError")>>

\* q with its elements i and i + 1 exchanged.
SwapAt(q, i) ==
    [j \in DOMAIN q |-> IF j = i THEN q[i + 1] ELSE IF j = i + 1 THEN q[i] ELSE q[j]]

\* Mutant: the relay verification is written before the wait for node C.
StepsOfRelayEarly(s) ==
    LET q == IF s = "live" THEN LiveSteps ELSE E2ESteps
        r == CHOOSE i \in DOMAIN q : q[i].kind = "relay"
    IN  SwapAt(q, r - 1)

\* The body of main of script s.
StepsOf(s) == IF s = "live" THEN LiveSteps ELSE E2ESteps

\* Mutant: the finally block starts at the signal loop in both scripts.
FinallyEntrySkipsSessions(s) == "sigterm"

\* The first loop of the finally block: the live script closes its gateway
\* clients first, the e2e script has none.
FinallyEntry(s) == IF s = "live" THEN "close_sessions" ELSE "sigterm"

\* Mutant: cleanup is written after the body instead of in a finally block.
AfterBodyNoFinally(s, raised) == IF raised THEN "exited" ELSE FinallyEntry(s)

\* try/finally: where control goes when the body is left, by return or by an
\* exception.
AfterBody(s, raised) == FinallyEntry(s)

\* Mutant: "except Exception: pass" is missing.
SwallowNothing(inner) == inner

\* try: ... except Exception: pass, around a call that ends with inner.
Swallow(inner) == IF inner # "none" THEN "none" ELSE inner

\* How send_signal and kill can end: the signal is delivered, or the process is
\* gone and the call raises.
SignalOutcomes == {"none", "ProcessLookupError"}

\* How fh.close() can end.
FileCloseOutcomes == {"none", "OSError"}

\* How connect() of a client can end in main: the outcomes of connect in the
\* session model.
ConnectOutcomes == {"ok", "ConnectionError", "TimeoutError", "RuntimeError", "ValueError"}

\* Mutant: every process of procs is signalled.
PollIsNoneAlways(st) == TRUE

\* proc.poll() is None
PollIsNone(st) == st = "running"

\* The step the body is at.
CurStep == StepsOf(script)[m_step]

Unvisited == [did |-> "nothing", was |-> "", inner |-> ""]

\* Nothing was printed to stderr.
NoLine == [printed |-> FALSE, prefix |-> "", text |-> ""]

\* An exception e leaves the try block from a step of stage st.
RaiseText(e, text, st) ==
    /\ body_exc' = e
    /\ exc_text' = text
    /\ failed_in' = st
    /\ stage' = "Failed"
    /\ m_pc' = AfterBody(script, TRUE)
    /\ main_result' = IF AfterBody(script, TRUE) = "exited" THEN e ELSE main_result
    /\ t_i' = 1
    /\ UNCHANGED m_step

\* raise E(f"..."), and the exceptions of the libraries: the message is there.
Raise(e, st) == RaiseText(e, "described", st)

\* The step is done: the next one follows, or main reaches "return 0".
Advance ==
    /\ UNCHANGED exc_text
    /\ IF m_step = Len(StepsOf(script))
       THEN /\ stage' = "Passed"
            /\ m_pc' = AfterBody(script, FALSE)
            /\ t_i' = 1
            /\ UNCHANGED <<m_step, body_exc, failed_in, main_result>>
       ELSE /\ stage' = CurStep.stage
            /\ m_step' = m_step + 1
            /\ UNCHANGED <<m_pc, t_i, body_exc, failed_in, main_result>>

\* Step 3, one iteration: open the log file, append it, Popen, append the process.
StartNode(r) ==
    /\ m_pc = "body"
    /\ CurStep.kind = "start"
    /\ LET n == CurStep.arg IN
       CASE r = "ok" ->
              /\ log_files' = Append(log_files, n)
              /\ procs' = Append(procs, n)
              /\ proc_state' = [proc_state EXCEPT ![n] = "running"]
              /\ started' = started \cup {n}
              /\ Advance
         [] r = "open fails" ->
              /\ Raise(CurStep.exc, CurStep.stage)
              /\ UNCHANGED <<log_files, procs, proc_state, started>>
         [] r = "Popen fails" ->
              /\ log_files' = Append(log_files, n)
              /\ Raise(CurStep.exc, CurStep.stage)
              /\ UNCHANGED <<procs, proc_state, started>>
    /\ UNCHANGED <<script, gateVars, faultVars, idleVars, sessVars, scenVars, blockVars, dbVars, trustVars, reqVars, relayVars, pollVars, gwVars, passes, exitVars, gateway_clients, sock, observed,
                   term, kill, slept, cleanup_failed>>

\* client = GatewayClient(...); client.connect(); gateway_clients.append(client)
ConnectClient(r) ==
    /\ m_pc = "body"
    /\ CurStep.kind = "connect"
    /\ LET c == CurStep.arg IN
       /\ sock' = [sock EXCEPT ![c] = IF r = "ConnectionError" THEN "unopened" ELSE "open"]
       /\ IF r = "ok"
          THEN /\ gateway_clients' = Append(gateway_clients, c)
               /\ Advance
          ELSE /\ Raise(r, CurStep.stage)
               /\ UNCHANGED gateway_clients
    /\ UNCHANGED <<script, gateVars, faultVars, idleVars, sessVars, scenVars, blockVars, dbVars, trustVars, reqVars, relayVars, pollVars, gwVars, passes, exitVars, procs, log_files, proc_state,
                   observed, started, term, kill, slept, cleanup_failed>>

\* Any other step of the body: it returns, or it raises its exception.
BodyStep(ok) ==
    /\ m_pc = "body"
    /\ CurStep.kind \notin {"start", "connect"}
    /\ IF ok
       THEN /\ Advance
            /\ observed' = CASE CurStep.kind = "act" -> {}
                             [] CurStep.kind = "converge" -> observed \cup {CurStep.arg}
                             [] OTHER -> observed
       ELSE /\ Raise(CurStep.exc, CurStep.stage)
            /\ UNCHANGED observed
    /\ UNCHANGED <<script, gateVars, faultVars, idleVars, sessVars, scenVars, blockVars, dbVars, trustVars, reqVars, relayVars, pollVars, gwVars, passes, exitVars, procs, log_files, gateway_clients,
                   proc_state, sock, started, term, kill, slept, cleanup_failed>>

\* assert len(members_after_join) == baseline_member_count + 1 and
\* assert len(members_after_leave) == baseline_member_count: the two assert
\* statements of the live script, which give AssertionError no message.
BareAssertSteps == {<<"realtime", "GUILD_MEMBER_ADD">>, <<"act", "rest">>}

\* One of the two assert statements fails.
MemberCountAssert ==
    /\ m_pc = "body"
    /\ script = "live"
    /\ <<CurStep.kind, CurStep.arg>> \in BareAssertSteps
    /\ RaiseText("AssertionError", "", CurStep.stage)
    /\ UNCHANGED <<script, gateVars, faultVars, idleVars, sessVars, scenVars, blockVars, dbVars, trustVars, reqVars, relayVars, pollVars, gwVars, passes, exitVars, procs,
                   log_files, gateway_clients, proc_state, sock, observed, started, term, kill,
                   slept, cleanup_failed>>

\* if __name__ == "__main__": raise SystemExit(main()), and except Exception
\* as exc: print(f"FAIL: {exc}", file=sys.stderr); raise. SystemExit is no
\* Exception; the exception raised again ends the interpreter with status 1.
ProcessExit ==
    /\ m_pc = "exited"
    /\ exit_code = Absent
    /\ IF main_result = "return 0"
       THEN /\ exit_code' = 0
            /\ UNCHANGED fail_line
       ELSE /\ exit_code' = 1
            /\ fail_line' = [printed |-> TRUE, prefix |-> "FAIL: ", text |-> exc_text]
    /\ UNCHANGED <<script, gateVars, faultVars, idleVars, sessVars, scenVars, blockVars, dbVars, trustVars, reqVars, relayVars, pollVars, gwVars, m_pc, m_step, t_i, procs,
                   log_files, gateway_clients, proc_state, sock, body_exc, main_result, stage,
                   failed_in, observed, started, term, kill, slept, cleanup_failed, passes,
                   exc_text>>

\* A node process ends by itself, or because SIGTERM reached it.
NodeExits(n) ==
    /\ m_pc # "exited"
    /\ proc_state[n] = "running"
    /\ proc_state' = [proc_state EXCEPT ![n] = "exited"]
    /\ UNCHANGED <<script, gateVars, faultVars, idleVars, sessVars, scenVars, blockVars, dbVars, trustVars, reqVars, relayVars, pollVars, gwVars, passes, exitVars, exc_text, m_pc, m_step, t_i, procs, log_files,
                   gateway_clients, sock, body_exc, main_result, stage, failed_in, observed,
                   started, term, kill, slept, cleanup_failed>>

\* An exception e leaves the finally block: it replaces the one of the body.
FinallyRaises(e) ==
    /\ m_pc' = "exited"
    /\ main_result' = e
    /\ UNCHANGED t_i

\* The finally block goes on: the next element of the loop, which ends main
\* when the last loop is exhausted.
FinallyNext(pc, i) ==
    /\ m_pc' = pc
    /\ t_i' = i
    /\ main_result' = IF pc # "exited" THEN main_result
                      ELSE IF body_exc = "none" THEN "return 0" ELSE body_exc

\* for client in gateway_clients: client.close()
CloseSessions ==
    /\ m_pc = "close_sessions"
    /\ IF t_i > Len(gateway_clients)
       THEN /\ FinallyNext("sigterm", 1)
            /\ UNCHANGED <<sock, cleanup_failed>>
       ELSE \E inner \in StreamCloseOutcomes :
              LET c == gateway_clients[t_i]
                  w == IF sock[c] = "open" THEN "open" ELSE "none"
                  e == CloseOutcome(w, inner)
              IN  /\ w = "none" => inner = "none"
                  /\ sock' = [sock EXCEPT ![c] =
                                IF WsAfterClose(w, e) = "none" /\ w = "open" THEN "closed"
                                ELSE @]
                  /\ cleanup_failed' = IF inner # "none" THEN cleanup_failed \cup {"session"}
                                       ELSE cleanup_failed
                  /\ IF e = "none" THEN FinallyNext(m_pc, t_i + 1) ELSE FinallyRaises(e)
    /\ UNCHANGED <<script, gateVars, faultVars, idleVars, sessVars, scenVars, blockVars, dbVars, trustVars, reqVars, relayVars, pollVars, gwVars, passes, exitVars, exc_text, m_step, procs, log_files,
                   gateway_clients, proc_state, body_exc, stage, failed_in, observed, started,
                   term, kill, slept>>

\* for proc in procs: if proc.poll() is None: try send_signal(SIGTERM) except: pass
Sigterm ==
    /\ m_pc = "sigterm"
    /\ IF t_i > Len(procs)
       THEN /\ FinallyNext("sleep", 1)
            /\ UNCHANGED <<proc_state, term, cleanup_failed>>
       ELSE LET p == procs[t_i] IN
            IF PollIsNone(proc_state[p])
            THEN \E inner \in SignalOutcomes :
                   /\ term' = [term EXCEPT ![p] = [did |-> "signal", was |-> proc_state[p],
                                                  inner |-> inner]]
                   /\ proc_state' = [proc_state EXCEPT ![p] =
                                       IF inner # "none" THEN "exited" ELSE @]
                   /\ cleanup_failed' = IF inner # "none"
                                        THEN cleanup_failed \cup {"sigterm"}
                                        ELSE cleanup_failed
                   /\ IF Swallow(inner) = "none" THEN FinallyNext(m_pc, t_i + 1)
                      ELSE FinallyRaises(Swallow(inner))
            ELSE /\ term' = [term EXCEPT ![p] = [did |-> "skip", was |-> proc_state[p],
                                                inner |-> ""]]
                 /\ FinallyNext(m_pc, t_i + 1)
                 /\ UNCHANGED <<proc_state, cleanup_failed>>
    /\ UNCHANGED <<script, gateVars, faultVars, idleVars, sessVars, scenVars, blockVars, dbVars, trustVars, reqVars, relayVars, pollVars, gwVars, passes, exitVars, exc_text, m_step, procs, log_files,
                   gateway_clients, sock, body_exc, stage, failed_in, observed, started, kill,
                   slept>>

\* time.sleep(1.0)
Sleep ==
    /\ m_pc = "sleep"
    /\ slept' = TRUE
    /\ FinallyNext("kill", 1)
    /\ UNCHANGED <<script, gateVars, faultVars, idleVars, sessVars, scenVars, blockVars, dbVars, trustVars, reqVars, relayVars, pollVars, gwVars, passes, exitVars, exc_text, m_step, procs, log_files,
                   gateway_clients, proc_state, sock, body_exc, stage, failed_in, observed,
                   started, term, kill, cleanup_failed>>

\* for proc in procs: if proc.poll() is None: try proc.kill() except: pass
Kill ==
    /\ m_pc = "kill"
    /\ IF t_i > Len(procs)
       THEN /\ FinallyNext("close_logs", 1)
            /\ UNCHANGED <<proc_state, kill, cleanup_failed>>
       ELSE LET p == procs[t_i] IN
            IF PollIsNone(proc_state[p])
            THEN \E inner \in SignalOutcomes :
                   /\ kill' = [kill EXCEPT ![p] = [did |-> "signal", was |-> proc_state[p],
                                                  inner |-> inner]]
                   /\ proc_state' = [proc_state EXCEPT ![p] =
                                       IF inner # "none" THEN "exited" ELSE "killed"]
                   /\ cleanup_failed' = IF inner # "none" THEN cleanup_failed \cup {"kill"}
                                        ELSE cleanup_failed
                   /\ IF Swallow(inner) = "none" THEN FinallyNext(m_pc, t_i + 1)
                      ELSE FinallyRaises(Swallow(inner))
            ELSE /\ kill' = [kill EXCEPT ![p] = [did |-> "skip", was |-> proc_state[p],
                                                inner |-> ""]]
                 /\ FinallyNext(m_pc, t_i + 1)
                 /\ UNCHANGED <<proc_state, cleanup_failed>>
    /\ UNCHANGED <<script, gateVars, faultVars, idleVars, sessVars, scenVars, blockVars, dbVars, trustVars, reqVars, relayVars, pollVars, gwVars, passes, exitVars, exc_text, m_step, procs, log_files,
                   gateway_clients, sock, body_exc, stage, failed_in, observed, started, term,
                   slept>>

\* for fh in log_files: try fh.close() except: pass; then main is left.
CloseLogs ==
    /\ m_pc = "close_logs"
    /\ IF t_i > Len(log_files)
       THEN /\ FinallyNext("exited", t_i)
            /\ UNCHANGED cleanup_failed
       ELSE \E inner \in FileCloseOutcomes :
              /\ cleanup_failed' = IF inner # "none" THEN cleanup_failed \cup {"log"}
                                   ELSE cleanup_failed
              /\ IF Swallow(inner) = "none" THEN FinallyNext(m_pc, t_i + 1)
                 ELSE FinallyRaises(Swallow(inner))
    /\ UNCHANGED <<script, gateVars, faultVars, idleVars, sessVars, scenVars, blockVars, dbVars, trustVars, reqVars, relayVars, pollVars, gwVars, passes, exitVars, exc_text, m_step, procs, log_files,
                   gateway_clients, proc_state, sock, body_exc, stage, failed_in, observed,
                   started, term, kill, slept>>

\* The statements of the finally block are run once more, from the first loop,
\* on the state the run before left.
TeardownAgain ==
    /\ m_pc = "exited"
    /\ exit_code = Absent
    /\ passes < MaxPasses
    /\ main_result \in {"return 0", body_exc}
    /\ passes' = passes + 1
    /\ m_pc' = FinallyEntry(script)
    /\ t_i' = 1
    /\ UNCHANGED <<script, gateVars, faultVars, idleVars, sessVars, scenVars, blockVars, dbVars, trustVars, reqVars, relayVars, pollVars, gwVars, exitVars, exc_text, m_step, procs, log_files,
                   gateway_clients, proc_state, sock, body_exc, main_result, stage, failed_in,
                   observed, started, term, kill, slept, cleanup_failed>>

\* main is entered: the three lists are empty, nothing is started.
InitMainVars ==
    /\ m_pc = "body"
    /\ m_step = 1
    /\ t_i = 1
    /\ procs = <<>>
    /\ log_files = <<>>
    /\ gateway_clients = <<>>
    /\ proc_state = [n \in Nodes |-> "unstarted"]
    /\ sock = [c \in Clients |-> "unopened"]
    /\ body_exc = "none"
    /\ main_result = "running"
    /\ stage = "Provisioning"
    /\ failed_in = "none"
    /\ observed = {}
    /\ started = {}
    /\ term = [n \in Nodes |-> Unvisited]
    /\ kill = [n \in Nodes |-> Unvisited]
    /\ slept = FALSE
    /\ cleanup_failed = {}
    /\ passes = 1
    /\ exc_text = ""
    /\ exit_code = Absent
    /\ fail_line = NoLine

-----------------------------------------------------------------------------
(* wait_until (the eventual-consistency poller)                            *)

\* time.sleep(0.5) of the e2e script and time.sleep(0.4) of the live script, in ms.
E2ESleepMs == 500
LiveSleepMs == 400

\* How much longer than asked a sleep may last (scheduling, the time fn takes).
JitterMs == 100

\* fn is never true.
Never == -1

Descriptions == {"message replicated to B", "message relayed to C"}
TimeoutsMs == {0, 300, 900, 1000, 1300}
Thresholds == {0, 200, 700, 1000, Never}
FnModes == {"false", "raise", "mixed"}

\* Mutant: the loop sleeps twice as long between polls.
SleepMsDoubled(s) == 2 * (IF s = "e2e" THEN E2ESleepMs ELSE LiveSleepMs)

\* The argument of time.sleep in the loop body.
SleepMs(s) == IF s = "e2e" THEN E2ESleepMs ELSE LiveSleepMs

\* Mutant: the deadline is compared with the time before the last sleep.
LoopContinuesLate(t, dl) == t - 500 < dl

\* while time.time() < deadline
LoopContinues(t, dl) == t < dl

\* What fn() can do when called at instant t: "true", "false" or "raise".
FnOutcomes(t) ==
    IF fn_T # Never /\ t >= fn_T THEN {"true"}
    ELSE IF fn_mode = "false" THEN {"false"}
    ELSE IF fn_mode = "raise" THEN {"raise"}
    ELSE {"false", "raise"}

\* Mutant: the try block is missing, an exception of fn leaves wait_until.
AfterPollNoTry(r) ==
    IF r = "true" THEN "return" ELSE IF r = "raise" THEN "propagate" ELSE "sleep"

\* try: if fn(): return / except Exception: (pass | last_error = exc)
AfterPoll(r) == IF r = "true" THEN "return" ELSE "sleep"

\* The TimeoutError raised after the loop.
TimeoutError(desc, err) ==
    [exc |-> "TimeoutError", desc |-> desc, last_error |-> err]

Returned == [exc |-> "none", desc |-> "", last_error |-> "none"]

PredicateError == [exc |-> "PredicateError", desc |-> "", last_error |-> "none"]

\* wait_until(desc, fn, timeout_s): deadline = time.time() + timeout_s
WaitUntilCall(desc, timeout, T, mode) ==
    /\ p_pc = "idle"
    /\ p_pc' = "loop"
    /\ p_desc' = desc
    /\ p_timeout' = timeout
    /\ fn_T' = T
    /\ fn_mode' = mode
    /\ p_deadline' = p_now + timeout
    /\ last_error' = "none"
    /\ UNCHANGED <<script, gateVars, faultVars, idleVars, sessVars, scenVars, blockVars, dbVars, trustVars, reqVars, mainVars, relayVars, gwVars, p_now, p_outcome, p_poll_times, p_raised, p_exact>>

\* One iteration of the loop body: evaluate fn, return or sleep.
WaitUntilPoll ==
    /\ p_pc = "loop"
    /\ LoopContinues(p_now, p_deadline)
    /\ p_poll_times' = p_poll_times \cup {p_now}
    /\ \E r \in FnOutcomes(p_now) :
        /\ p_raised' = (p_raised \/ r = "raise")
        /\ IF AfterPoll(r) = "return"
           THEN /\ p_pc' = "done"
                /\ p_outcome' = Returned
                /\ UNCHANGED <<p_now, last_error, p_exact>>
           ELSE IF AfterPoll(r) = "propagate"
           THEN /\ p_pc' = "done"
                /\ p_outcome' = PredicateError
                /\ UNCHANGED <<p_now, last_error, p_exact>>
           ELSE /\ \E j \in {0, JitterMs} :
                    /\ p_now' = p_now + SleepMs(script) + j
                    /\ p_exact' = (p_exact /\ j = 0)
                /\ last_error' = IF r = "raise" /\ script = "live" THEN "fn error"
                                 ELSE last_error
                /\ UNCHANGED <<p_pc, p_outcome>>
    /\ UNCHANGED <<script, gateVars, faultVars, idleVars, sessVars, scenVars, blockVars, dbVars, trustVars, reqVars, mainVars, relayVars, gwVars, p_deadline, p_desc, p_timeout, fn_T, fn_mode>>

\* The loop test fails: raise TimeoutError(...).
WaitUntilTimeout ==
    /\ p_pc = "loop"
    /\ ~LoopContinues(p_now, p_deadline)
    /\ p_pc' = "done"
    /\ p_outcome' = TimeoutError(p_desc, last_error)
    /\ UNCHANGED <<script, gateVars, faultVars, idleVars, sessVars, scenVars, blockVars, dbVars, trustVars, reqVars, mainVars, relayVars, gwVars, p_now, p_deadline, p_desc, p_timeout, fn_T, fn_mode,
                   last_error, p_poll_times, p_raised, p_exact>>

InitPollVars ==
    /\ p_pc = "idle"
    /\ p_now = 0
    /\ p_deadline = 0
    /\ p_desc = ""
    /\ p_timeout = 0
    /\ fn_T = Never
    /\ fn_mode = "false"
    /\ last_error = "none"
    /\ p_outcome = [exc |-> "pending", desc |-> "", last_error |-> "none"]
    /\ p_poll_times = {}
    /\ p_raised = FALSE
    /\ p_exact = TRUE

-----------------------------------------------------------------------------
(* wait_dispatch and wait_until as loops in time: every iteration takes     *)
(* time, the stream and fn behave as they like for as long as they like     *)

BlockingCalls == {"wait_dispatch", "wait_until"}

\* timeout_s of the calls, scaled.
BlockingTimeoutsMs == {0, 1000, 1200}

\* What the stream does while wait_dispatch reads: nothing, frames that do not
\* decode or are no objects, dispatch events of other types, events of the
\* awaited type on which the predicate is false, on which it raises, the
\* awaited event, and the stream closed.
StreamBehaviours ==
    {"silent", "undecodable", "other events", "predicate false", "predicate raises",
     "match", "closed"}

\* What fn does while wait_until polls.
FnBehaviours == {"false", "raises", "true"}

BehavioursOf(call) == IF call = "wait_dispatch" THEN StreamBehaviours ELSE FnBehaviours

\* Mutant: recv() without a timeout.
RecvTimeoutNone(call) == Never

\* self.ws.settimeout(timeout_s) in _poll_once, called with 0.5.
RecvTimeout(call) == PollOnceMs

\* Time an iteration of wait_dispatch takes when a frame arrives: from at once
\* to just before the timeout of recv.
ReadCosts == {ReadCostMs, PollOnceMs}

\* wait_dispatch or wait_until is called; cached: _find_in_backlog finds the
\* event and the call returns before the loop.
BlockingCall(call, timeout, env, cached) ==
    /\ b_pc = "idle"
    /\ env \in BehavioursOf(call)
    /\ cached => call = "wait_dispatch"
    /\ b_call' = call
    /\ b_env' = env
    /\ b_deadline' = b_now + timeout
    /\ b_pc' = IF cached THEN "done" ELSE "loop"
    /\ b_out' = IF cached THEN "return" ELSE b_out
    /\ UNCHANGED <<script, gateVars, faultVars, idleVars, sessVars, scenVars, relayVars, pollVars, gwVars, mainVars, reqVars, trustVars, dbVars,
                   b_now, b_backlog>>

\* The stream, or fn, turns to another behaviour.
BehaviourTurns(env) ==
    /\ b_pc = "loop"
    /\ env \in BehavioursOf(b_call)
    /\ env # b_env
    /\ b_env' = env
    /\ UNCHANGED <<script, gateVars, faultVars, idleVars, sessVars, scenVars, relayVars, pollVars, gwVars, mainVars, reqVars, trustVars, dbVars,
                   b_call, b_pc, b_now, b_deadline, b_backlog, b_out>>

\* wait_dispatch: one iteration of while time.monotonic() < deadline.
DispatchIteration ==
    /\ b_call = "wait_dispatch"
    /\ b_pc = "loop"
    /\ b_now < b_deadline
    /\ CASE b_env = "silent" ->
              /\ RecvTimeout(b_call) # Never
              /\ b_now' = b_now + RecvTimeout(b_call)
              /\ UNCHANGED <<b_pc, b_out, b_backlog>>
         [] b_env = "closed" ->
              /\ b_pc' = "done"
              /\ b_out' = "RuntimeError"
              /\ UNCHANGED <<b_now, b_backlog>>
         [] b_env = "match" ->
              /\ b_pc' = "done"
              /\ b_out' = "return"
              /\ UNCHANGED <<b_now, b_backlog>>
         [] b_env = "predicate raises" ->
              /\ b_pc' = "done"
              /\ b_out' = "PredicateError"
              /\ UNCHANGED <<b_now, b_backlog>>
         [] OTHER ->
              /\ \E c \in ReadCosts : b_now' = b_now + c
              /\ b_backlog' = IF b_env = "undecodable" THEN b_backlog ELSE b_backlog + 1
              /\ UNCHANGED <<b_pc, b_out>>
    /\ UNCHANGED <<script, gateVars, faultVars, idleVars, sessVars, scenVars, relayVars, pollVars, gwVars, mainVars, reqVars, trustVars, dbVars,
                   b_call, b_deadline, b_env>>

\* wait_until: one iteration of while time.time() < deadline.
UntilIteration ==
    /\ b_call = "wait_until"
    /\ b_pc = "loop"
    /\ LoopContinues(b_now, b_deadline)
    /\ IF b_env = "true"
       THEN /\ b_pc' = "done"
            /\ b_out' = "return"
            /\ UNCHANGED b_now
       ELSE /\ \E j \in {0, JitterMs} : b_now' = b_now + SleepMs(script) + j
            /\ UNCHANGED <<b_pc, b_out>>
    /\ UNCHANGED <<script, gateVars, faultVars, idleVars, sessVars, scenVars, relayVars, pollVars, gwVars, mainVars, reqVars, trustVars, dbVars,
                   b_call, b_deadline, b_env, b_backlog>>

\* The loop test of either call fails: raise TimeoutError(...).
BlockingTimeout ==
    /\ b_pc = "loop"
    /\ b_now >= b_deadline
    /\ b_pc' = "done"
    /\ b_out' = "TimeoutError"
    /\ UNCHANGED <<script, gateVars, faultVars, idleVars, sessVars, scenVars, relayVars, pollVars, gwVars, mainVars, reqVars, trustVars, dbVars,
                   b_call, b_now, b_deadline, b_env, b_backlog>>

InitBlockVars ==
    /\ b_call = "none"
    /\ b_pc = "idle"
    /\ b_now = 0
    /\ b_deadline = 0
    /\ b_env = "silent"
    /\ b_backlog = 0
    /\ b_out = "pending"

-----------------------------------------------------------------------------
(* The message scenario of the live script (step 9 of main), in time         *)

\* timeout_s of the wait_dispatch calls of step 9, and the default of wait_until.
AwaitTimeoutMs == 20000
UntilTimeoutMs == 30000

\* A statement of the scenario: what it is, what it waits for, its timeout.
MkStmt(kind, what, timeout) == [kind |-> kind, what |-> what, timeout |-> timeout]

\* Step 9 up to the edited message on C.
MessageScenario ==
    <<MkStmt("act", "create message", 0),
      MkStmt("await", "MESSAGE_CREATE", AwaitTimeoutMs),
      MkStmt("until", "message replicated to B", UntilTimeoutMs),
      MkStmt("until", "message replicated to C", UntilTimeoutMs),
      MkStmt("act", "relay check", 0),
      MkStmt("act", "edit message", 0),
      MkStmt("await", "MESSAGE_UPDATE", AwaitTimeoutMs),
      MkStmt("until", "edited message on B", UntilTimeoutMs),
      MkStmt("until", "edited message on C", UntilTimeoutMs)>>

StmtNames == {MessageScenario[i].what : i \in DOMAIN MessageScenario}

NotRun == [call |-> Absent, at |-> Absent, out |-> "not run"]

CurStmt == MessageScenario[sn_step]

\* When, after the call, the awaited thing happens: the frame reaches the
\* socket, the store shows the content. Never: it does not happen.
EffectDelaysMs == {0, 19900, 20300, 20500, 29600, 30000, Never}

\* Where in time the last read attempt of a wait_dispatch call starts, counted
\* from the call: with reads of exactly 0.5 s it starts 0.5 s before the
\* deadline; a frame that ends a read early moves the next one, so that the
\* last can start any time before the deadline.
LastReadStarts(timeout) == {timeout - PollOnceMs, timeout - ReadCostMs}

\* Mutant: recv() waits a second.
ReadEndLate(start, timeout) == start + 2 * PollOnceMs

\* recv() of a read attempt that starts at start returns a frame that arrives
\* before this instant.
ReadEnd(start, timeout) == start + PollOnceMs

\* The first poll of wait_until at or after instant t, polls being i apart.
FirstPollAtOrAfter(t, i) == ((t + i - 1) \div i) * i

\* The statement is over: the next one, or the end of the scenario.
ScenarioGoesOn(what, call, at, out) ==
    /\ sn_log' = [sn_log EXCEPT ![what] = [call |-> call, at |-> at, out |-> out]]
    /\ IF out # "ok"
       THEN /\ sn_result' = "Failed"
            /\ UNCHANGED sn_step
       ELSE IF sn_step = Len(MessageScenario)
            THEN /\ sn_result' = "Passed"
                 /\ UNCHANGED sn_step
            ELSE /\ sn_step' = sn_step + 1
                 /\ UNCHANGED sn_result

\* request_json(...) of step 9, or the relay check: it succeeds or raises.
ScenarioAct(ok) ==
    /\ sn_result = "running"
    /\ CurStmt.kind = "act"
    /\ sn_now' = sn_now + ReadCostMs
    /\ ScenarioGoesOn(CurStmt.what, sn_now, sn_now',
                      IF ok THEN "ok"
                      ELSE IF CurStmt.what = "relay check" THEN "AssertionError"
                      ELSE "RuntimeError")
    /\ UNCHANGED <<script, gateVars, faultVars, idleVars, sessVars, relayVars, pollVars, gwVars, mainVars, reqVars, trustVars, dbVars,
                   blockVars>>

\* guest1_ws.wait_dispatch(T, predicate, timeout_s=20.0), the matching frame
\* reaching the socket d after the call and the last read attempt starting at
\* last.
ScenarioAwait(d, last) ==
    /\ sn_result = "running"
    /\ CurStmt.kind = "await"
    /\ last \in LastReadStarts(CurStmt.timeout)
    /\ IF d # Never /\ d < ReadEnd(last, CurStmt.timeout)
       THEN /\ sn_now' = sn_now + d
            /\ ScenarioGoesOn(CurStmt.what, sn_now, sn_now', "ok")
       ELSE /\ sn_now' = sn_now + ReadEnd(last, CurStmt.timeout)
            /\ ScenarioGoesOn(CurStmt.what, sn_now, Absent, "TimeoutError")
    /\ UNCHANGED <<script, gateVars, faultVars, idleVars, sessVars, relayVars, pollVars, gwVars, mainVars, reqVars, trustVars, dbVars,
                   blockVars>>

\* wait_until(desc, lambda: mapped_message_content(...) == content), the store
\* showing the content from d after the call on, polls LiveSleepMs + j apart.
ScenarioUntil(d, j) ==
    /\ sn_result = "running"
    /\ CurStmt.kind = "until"
    /\ LET i == LiveSleepMs + j
           poll == FirstPollAtOrAfter(d, i)
       IN  IF d # Never /\ LoopContinues(poll, CurStmt.timeout)
           THEN /\ sn_now' = sn_now + poll
                /\ ScenarioGoesOn(CurStmt.what, sn_now, sn_now', "ok")
           ELSE /\ sn_now' = sn_now + FirstPollAtOrAfter(CurStmt.timeout, i)
                /\ ScenarioGoesOn(CurStmt.what, sn_now, Absent, "TimeoutError")
    /\ UNCHANGED <<script, gateVars, faultVars, idleVars, sessVars, relayVars, pollVars, gwVars, mainVars, reqVars, trustVars, dbVars,
                   blockVars>>

InitScenVars ==
    /\ sn_step = 1
    /\ sn_now = 0
    /\ sn_log = [w \in StmtNames |-> NotRun]
    /\ sn_result = "running"

-----------------------------------------------------------------------------
(* The three sessions of the live script side by side: the relationship      *)
(* statements of step 11                                                     *)

Sessions == {"guest1", "guest2", "admin-a"}

\* An event on its way: the session it is sent to and what it is.
Ev(sess, t) == [sess |-> sess, t |-> t]

\* A statement of the stretch: a request, with the events the server sends
\* because of it, or a wait_dispatch call on a session.
Cause(evs) == [kind |-> "act", sess |-> "", t |-> "", emits |-> evs]
AwaitOn(sess, t) == [kind |-> "await", sess |-> sess, t |-> t, emits |-> {}]

\* PUT relationships (accept), awaited on guest1 then guest2; DELETE
\* relationships, awaited on guest1 then guest2. admin-a is connected and
\* gets events of its own, which nothing in the stretch waits for.
RelationshipStretch ==
    <<Cause({Ev("guest1", "RELATIONSHIP_ADD"), Ev("guest2", "RELATIONSHIP_ADD"),
             Ev("admin-a", "PRESENCE_UPDATE")}),
      AwaitOn("guest1", "RELATIONSHIP_ADD"),
      AwaitOn("guest2", "RELATIONSHIP_ADD"),
      Cause({Ev("guest1", "RELATIONSHIP_REMOVE"), Ev("guest2", "RELATIONSHIP_REMOVE"),
             Ev("guest2", "PRESENCE_UPDATE")}),
      AwaitOn("guest1", "RELATIONSHIP_REMOVE"),
      AwaitOn("guest2", "RELATIONSHIP_REMOVE")>>

XStmt == RelationshipStretch[x_step]

\* Mutant: every client reads the socket of guest1.
SocketShared(sess) == "guest1"

\* self.ws of the client: each GatewayClient has its own connection.
SocketOf(sess) == sess

\* Index of the first entry of q with type t, 0 if there is none.
FirstOfType(q, t) ==
    IF \E i \in DOMAIN q : q[i] = t
    THEN CHOOSE i \in DOMAIN q : q[i] = t /\ \A j \in 1..(i - 1) : q[j] # t
    ELSE 0

RemoveAt(q, i) == SubSeq(q, 1, i - 1) \o SubSeq(q, i + 1, Len(q))

\* The statement is over.
XGoesOn ==
    IF x_step = Len(RelationshipStretch)
    THEN /\ x_result' = "Passed"
         /\ UNCHANGED x_step
    ELSE /\ x_step' = x_step + 1
         /\ UNCHANGED x_result

\* The next request of the stretch returns 204: the server has the events to
\* send.
XRequest ==
    /\ x_result = "running"
    /\ XStmt.kind = "act"
    /\ x_emitted' = x_emitted \cup XStmt.emits
    /\ XGoesOn
    /\ UNCHANGED <<script, gateVars, faultVars, idleVars, relayVars, pollVars, gwVars, mainVars, reqVars, trustVars, dbVars,
                   blockVars, scenVars, x_socket, x_backlog, x_order, x_returned>>

\* An event reaches the socket of its session, whatever the harness is doing,
\* as long as the sessions are open.
XArrives(e) ==
    /\ x_result = "running"
    /\ e \in x_emitted
    /\ x_emitted' = x_emitted \ {e}
    /\ x_socket' = [x_socket EXCEPT ![e.sess] = Append(@, e.t)]
    /\ x_order' = Append(x_order, e)
    /\ UNCHANGED <<script, gateVars, faultVars, idleVars, relayVars, pollVars, gwVars, mainVars, reqVars, trustVars, dbVars,
                   blockVars, scenVars, x_step, x_backlog, x_returned, x_result>>

\* wait_dispatch on the session of the statement, run until it returns: the
\* backlog first, then the frames of the socket in order, those that do not
\* match going to the backlog. It returns if the event is there.
XAwaitReturns ==
    /\ x_result = "running"
    /\ XStmt.kind = "await"
    /\ LET c == XStmt.sess
           k == SocketOf(c)
           b == FirstOfType(x_backlog[c], XStmt.t)
           f == FirstOfType(x_socket[k], XStmt.t)
       IN  /\ b # 0 \/ f # 0
           /\ IF b # 0
              THEN /\ x_backlog' = [x_backlog EXCEPT ![c] = RemoveAt(@, b)]
                   /\ UNCHANGED x_socket
              ELSE /\ x_backlog' = [x_backlog EXCEPT ![c] = @ \o SubSeq(x_socket[k], 1, f - 1)]
                   /\ x_socket' = [x_socket EXCEPT ![k] = SubSeq(@, f + 1, Len(@))]
           /\ x_returned' = Append(x_returned, Ev(c, XStmt.t))
    /\ XGoesOn
    /\ UNCHANGED <<script, gateVars, faultVars, idleVars, relayVars, pollVars, gwVars, mainVars, reqVars, trustVars, dbVars,
                   blockVars, scenVars, x_emitted, x_order>>

\* wait_dispatch on the session of the statement, run until its deadline: the
\* event is neither in the backlog nor among the frames that reach the socket
\* before the deadline, all of which go to the backlog.
XAwaitTimesOut ==
    /\ x_result = "running"
    /\ XStmt.kind = "await"
    /\ LET c == XStmt.sess
           k == SocketOf(c)
       IN  /\ FirstOfType(x_backlog[c], XStmt.t) = 0
           /\ FirstOfType(x_socket[k], XStmt.t) = 0
           /\ x_backlog' = [x_backlog EXCEPT ![c] = @ \o x_socket[k]]
           /\ x_socket' = [x_socket EXCEPT ![k] = <<>>]
    /\ x_result' = "TimeoutError"
    /\ UNCHANGED <<script, gateVars, faultVars, idleVars, relayVars, pollVars, gwVars, mainVars, reqVars, trustVars, dbVars,
                   blockVars, scenVars, x_step, x_emitted, x_order, x_returned>>

InitSessVars ==
    /\ x_step = 1
    /\ x_socket = [c \in Sessions |-> <<>>]
    /\ x_backlog = [c \in Sessions |-> <<>>]
    /\ x_emitted = {}
    /\ x_order = <<>>
    /\ x_returned = <<>>
    /\ x_result = "running"

-----------------------------------------------------------------------------
(* The keepalives of the three sessions over the live scenario, in time      *)

\* A statement of the scenario from step 5 on: a connect() or a wait_dispatch
\* on a session, a wait_until, or requests.
KStmt(kind, sess, timeout) == [kind |-> kind, sess |-> sess, timeout |-> timeout]

\* Steps 5 to 14 of the live script, the waits of a kind that follow one
\* another on the same session taken once.
KeepalivePlan ==
    <<KStmt("connect", "guest2", ReadyTimeoutMs),
      KStmt("act", "", 0),
      KStmt("connect", "admin-a", ReadyTimeoutMs),
      KStmt("act", "", 0),
      KStmt("await", "admin-a", 25000),
      KStmt("connect", "guest1", ReadyTimeoutMs),
      KStmt("act", "", 0),
      KStmt("await", "guest1", AwaitTimeoutMs),
      KStmt("until", "", UntilTimeoutMs),
      KStmt("until", "", UntilTimeoutMs),
      KStmt("act", "", 0),
      KStmt("await", "guest1", AwaitTimeoutMs),
      KStmt("until", "", UntilTimeoutMs),
      KStmt("act", "", 0),
      KStmt("await", "guest2", AwaitTimeoutMs),
      KStmt("await", "guest1", AwaitTimeoutMs),
      KStmt("await", "guest2", AwaitTimeoutMs),
      KStmt("act", "", 0),
      KStmt("await", "admin-a", AwaitTimeoutMs),
      KStmt("act", "", 0)>>

KCur == KeepalivePlan[k_step]

\* How long a statement takes when it succeeds: next to nothing, or nearly
\* its timeout.
KDurations(st) ==
    IF st.kind = "act" THEN {ReadCostMs}
    ELSE IF st.kind = "connect" THEN {ReadCostMs}
    ELSE {ReadCostMs, st.timeout - PollOnceMs}

\* The times of the read attempts of a receive loop that runs from t to end,
\* one attempt every PollOnceMs.
ReadTimes(t, end) ==
    IF t >= end THEN {}
    ELSE {t + k * PollOnceMs : k \in 0..((end - t - 1) \div PollOnceMs)}

\* last_heartbeat_at after those read attempts, each calling _maybe_heartbeat:
\* the first attempt at which a heartbeat is due sends it, and so on from there.
RECURSIVE LastAfterReads(_, _, _)
LastAfterReads(t, end, last) ==
    LET due == {r \in ReadTimes(t, end) : HeartbeatDue(r, last, DefaultHeartbeatMs)}
    IN  IF due = {} THEN last
        ELSE LET first == CHOOSE r \in due : \A q \in due : r <= q
             IN  LastAfterReads(first + PollOnceMs, end, first)

\* The statement is over.
KGoesOn == k_step' = k_step + 1

\* client.connect(): the handshake, whose receive loops call _maybe_heartbeat.
KConnect(d) ==
    /\ k_step <= Len(KeepalivePlan)
    /\ KCur.kind = "connect"
    /\ d \in KDurations(KCur)
    /\ k_conn' = [k_conn EXCEPT ![KCur.sess] = k_now]
    /\ k_last' = [k_last EXCEPT ![KCur.sess] = LastAfterReads(k_now, k_now + d, @)]
    /\ k_open' = k_open \cup {KCur.sess}
    /\ k_now' = k_now + d
    /\ KGoesOn
    /\ UNCHANGED <<script, gateVars, faultVars, relayVars, pollVars, gwVars, mainVars, reqVars, trustVars, dbVars,
                   blockVars, scenVars, sessVars>>

\* client.wait_dispatch(...) returning after d: only the awaited session reads.
KAwait(d) ==
    /\ k_step <= Len(KeepalivePlan)
    /\ KCur.kind = "await"
    /\ d \in KDurations(KCur)
    /\ k_last' = [k_last EXCEPT ![KCur.sess] = LastAfterReads(k_now, k_now + d, @)]
    /\ k_now' = k_now + d
    /\ KGoesOn
    /\ UNCHANGED <<script, gateVars, faultVars, relayVars, pollVars, gwVars, mainVars, reqVars, trustVars, dbVars,
                   blockVars, scenVars, sessVars, k_conn, k_open>>

\* wait_until(...) returning after d, or requests: no session reads.
KOther(d) ==
    /\ k_step <= Len(KeepalivePlan)
    /\ KCur.kind \in {"until", "act"}
    /\ d \in KDurations(KCur)
    /\ k_now' = k_now + d
    /\ KGoesOn
    /\ UNCHANGED <<script, gateVars, faultVars, relayVars, pollVars, gwVars, mainVars, reqVars, trustVars, dbVars,
                   blockVars, scenVars, sessVars, k_conn, k_last, k_open>>

\* finally: client.close() for every client.
KTeardown ==
    /\ k_step = Len(KeepalivePlan) + 1
    /\ k_open # {}
    /\ k_open' = {}
    /\ UNCHANGED <<script, gateVars, faultVars, relayVars, pollVars, gwVars, mainVars, reqVars, trustVars, dbVars,
                   blockVars, scenVars, sessVars, k_step, k_now, k_conn, k_last>>

InitIdleVars ==
    /\ k_step = 1
    /\ k_now = 0
    /\ k_conn = [c \in Sessions |-> Absent]
    /\ k_last = [c \in Sessions |-> 0]
    /\ k_open = {}

-----------------------------------------------------------------------------
(* wait_dispatch on a connected session whose predicate can raise and whose *)
(* keepalive sends can fail                                                 *)

\* The dispatch events the peer sends: type tag and payload, every payload a dict.
\* The payload "noid" has no "id" key.
FaultEvents ==
    {<<"MESSAGE_CREATE", "m1">>, <<"MESSAGE_CREATE", "noid">>, <<"TYPING_START", "m1">>}

FEvent(n, e) == [id |-> n, t |-> e[1], d |-> e[2]]

NoEvent == [id |-> 0, t |-> NoType, d |-> NotDict]

\* predicate arguments: None, and lambda d: d["id"] == "m1", which raises
\* KeyError on a payload without the key.
FaultPredicates == {"None", "d[id]=m1"}

FaultTimeoutsMs == {500, 2000}

\* heartbeat_interval_s of the session: the greeting carried 1000 ms.
FaultInterval == NegotiatedInterval(Hello(1000))

\* predicate is None or predicate(data): "true", "false", or "raise".
PredicateOutcome(P, d) ==
    IF P = "None" THEN "true"
    ELSE IF d = "noid" THEN "raise"
    ELSE IF d = "m1" THEN "true"
    ELSE "false"

\* _find_in_backlog from item idx on: the first item of the type on which the
\* predicate is true ("found") or raises ("raise"), "none" when the scan ends.
RECURSIVE FScan(_, _, _, _)
FScan(bl, idx, T, P) ==
    IF idx > Len(bl) THEN [kind |-> "none", idx |-> 0]
    ELSE IF bl[idx].t # T THEN FScan(bl, idx + 1, T, P)
    ELSE LET o == PredicateOutcome(P, bl[idx].d) IN
         IF o = "raise" THEN [kind |-> "raise", idx |-> idx]
         ELSE IF o = "true" THEN [kind |-> "found", idx |-> idx]
         ELSE FScan(bl, idx + 1, T, P)

FOutcome(exc, msg, src) == [exc |-> exc, msg |-> msg, src |-> src]

FPending == FOutcome("pending", NoEvent, "none")

\* wait_dispatch(event_type, predicate, timeout_s) up to its loop.
FWaitDispatchCall(T, P, timeout) ==
    LET r == FScan(f_backlog, 1, T, P) IN
    /\ f_pc = "idle"
    /\ f_calls < MaxCalls
    /\ f_calls' = f_calls + 1
    /\ f_call' = <<T, P>>
    /\ IF r.kind = "found"
       THEN /\ f_backlog' = Pop(f_backlog, r.idx)
            /\ f_out' = FOutcome("none", f_backlog[r.idx], "backlog")
            /\ UNCHANGED <<f_pc, f_deadline>>
       ELSE IF r.kind = "raise"
       THEN /\ f_out' = FOutcome("KeyError", f_backlog[r.idx], "backlog")
            /\ UNCHANGED <<f_pc, f_deadline, f_backlog>>
       ELSE /\ f_pc' = "wait"
            /\ f_deadline' = f_now + timeout
            /\ f_out' = FPending
            /\ UNCHANGED f_backlog
    /\ UNCHANGED <<script, gateVars, relayVars, pollVars, gwVars, mainVars, reqVars, trustVars, dbVars,
                   blockVars, scenVars, sessVars, idleVars, f_now, f_last, f_sent, f_hb, f_n>>

\* Mutant: last_heartbeat_at is set whether or not the send raised.
FLastAfterAttempt(due, ok) == IF due THEN f_now ELSE f_last

\* _maybe_heartbeat: self.last_heartbeat_at = now comes after the send, inside
\* no try block of its own: "except Exception: return" skips it.
FLastAfter(due, ok) == IF due /\ ok THEN f_now ELSE f_last

\* _maybe_heartbeat at a read attempt; ok: self.send does not raise.
FMaybeHeartbeat(ok) ==
    LET due == HeartbeatDue(f_now, f_last, FaultInterval) IN
    /\ ~due => ok
    /\ f_hb' = IF ~due THEN "none" ELSE IF ok THEN "sent" ELSE "failed"
    /\ f_sent' = IF due /\ ok THEN f_sent + 1 ELSE f_sent
    /\ f_last' = FLastAfter(due, ok)

\* wait_dispatch loop, _poll_once: recv() times out, None, continue.
FPollSilence(ok) ==
    /\ f_pc = "wait"
    /\ f_now < f_deadline
    /\ FMaybeHeartbeat(ok)
    /\ f_now' = f_now + PollOnceMs
    /\ UNCHANGED <<script, gateVars, relayVars, pollVars, gwVars, mainVars, reqVars, trustVars, dbVars,
                   blockVars, scenVars, sessVars, idleVars, f_pc, f_backlog, f_call,
                   f_deadline, f_out, f_n, f_calls>>

\* wait_dispatch loop, one iteration in which recv() delivers dispatch event e.
FPollFrame(e, ok) ==
    LET msg == FEvent(f_n + 1, e)
        o == IF msg.t = f_call[1] THEN PredicateOutcome(f_call[2], msg.d) ELSE "false"
    IN
    /\ f_pc = "wait"
    /\ f_now < f_deadline
    /\ f_n < MaxEvents
    /\ FMaybeHeartbeat(ok)
    /\ f_n' = f_n + 1
    /\ f_now' = f_now + ReadCostMs
    /\ IF o = "raise"
       THEN /\ f_pc' = "idle"
            /\ f_out' = FOutcome("KeyError", msg, "stream")
            /\ UNCHANGED f_backlog
       ELSE IF o = "true"
       THEN /\ f_pc' = "idle"
            /\ f_out' = FOutcome("none", msg, "stream")
            /\ UNCHANGED f_backlog
       ELSE /\ f_backlog' = BacklogAppend(f_backlog, msg)
            /\ UNCHANGED <<f_pc, f_out>>
    /\ UNCHANGED <<script, gateVars, relayVars, pollVars, gwVars, mainVars, reqVars, trustVars, dbVars,
                   blockVars, scenVars, sessVars, idleVars, f_call, f_deadline, f_calls>>

\* wait_dispatch: the loop ends, TimeoutError.
FWaitTimeout ==
    /\ f_pc = "wait"
    /\ f_now >= f_deadline
    /\ f_pc' = "idle"
    /\ f_out' = FOutcome("TimeoutError", NoEvent, "none")
    /\ UNCHANGED <<script, gateVars, relayVars, pollVars, gwVars, mainVars, reqVars, trustVars, dbVars,
                   blockVars, scenVars, sessVars, idleVars, f_backlog, f_call, f_now,
                   f_deadline, f_last, f_sent, f_hb, f_n, f_calls>>

\* The session as connect() left it.
InitFaultVars ==
    /\ f_pc = "idle"
    /\ f_backlog = <<>>
    /\ f_call = <<"", "None">>
    /\ f_now = 0
    /\ f_deadline = 0
    /\ f_last = 0
    /\ f_sent = 0
    /\ f_out = FPending
    /\ f_hb = "none"
    /\ f_n = 0
    /\ f_calls = 0

-----------------------------------------------------------------------------
(* security_gate_check.py                                                   *)

\* The status column of a tracker row.
TrackerStatuses == {"OPEN", "IN_PROGRESS", "BLOCKED", "DONE"}

\* A table row of the tracker: whether its id is a P0 id (P0-nn), and its status.
TrackerRows == [p0 : BOOLEAN, status : TrackerStatuses]

MissingTracker == [exists |-> FALSE, rows |-> <<>>]

\* The tracker file: missing, or a table of rows.
TrackerFiles ==
    {MissingTracker} \cup
    {[exists |-> TRUE, rows |-> r] : r \in UNION {[1..n -> TrackerRows] : n \in 0..MaxTrackerRows}}

\* ROW_RE.match(line): a P0 id and one of OPEN, IN_PROGRESS, BLOCKED as status.
RowMatches(row) == row.p0 /\ row.status \in {"OPEN", "IN_PROGRESS", "BLOCKED"}

\* main(): its first statement is "return 0"; the test for the file, the scan
\* of the rows and the prints that follow it are never reached.
GateMain ==
    /\ gate_exit = Absent
    /\ gate_exit' = 0
    /\ UNCHANGED <<script, relayVars, pollVars, gwVars, mainVars, reqVars, trustVars, dbVars,
                   blockVars, scenVars, sessVars, idleVars, faultVars, tracker, gate_printed>>

InitGateVars ==
    /\ tracker = MissingTracker
    /\ gate_exit = Absent
    /\ gate_printed = <<>>

-----------------------------------------------------------------------------
(* Relay verification                                                      *)

\* Most rows a ledger holds for one key (a delivery may be retried).
MaxRows == 1

\* Nodes whose delivery-attempt ledger the harness reads.
Senders == {"a", "b"}

\* destination_server values of interest.
Destinations == {"b", "c"}

\* origin_event_id of the message created on A, and some unrelated event.
EventIds == {"origin", "other"}

AttemptKeys == Senders \X EventIds \X Destinations

\* A node under test appends a delivery-attempt row to its own ledger.
RecordAttempt(n, e, d) ==
    /\ verdict = "pending"
    /\ attempts[<<n, e, d>>] < MaxRows
    /\ attempts' = [attempts EXCEPT ![<<n, e, d>>] = @ + 1]
    /\ UNCHANGED <<script, gateVars, faultVars, idleVars, sessVars, scenVars, blockVars, dbVars, trustVars, reqVars, mainVars, events, a_to_c, b_to_c, c_has_event, verdict, pollVars, gwVars>>

\* Node C records an ingested event.
RecordIngest(e) ==
    /\ verdict = "pending"
    /\ events[e] < MaxRows
    /\ events' = [events EXCEPT ![e] = @ + 1]
    /\ UNCHANGED <<script, gateVars, faultVars, idleVars, sessVars, scenVars, blockVars, dbVars, trustVars, reqVars, mainVars, attempts, a_to_c, b_to_c, c_has_event, verdict, pollVars, gwVars>>

\* Mutant: the destination_server filter is missing from the query.
CountAttemptsAnyDestination(n, e, d) ==
    attempts[<<n, e, "b">>] + attempts[<<n, e, "c">>]

\* SELECT COUNT(*) FROM federation_delivery_attempts
\*   WHERE event_id = ? AND destination_server = ?   (on node n's store)
CountAttempts(n, e, d) == attempts[<<n, e, d>>]

\* SELECT COUNT(*) FROM federation_events WHERE event_id = ?  (on C's store)
CountEvents(e) == events[e]

\* The two assertions of federation_e2e_validation.py, in order.
RelayVerdictE2E(a2c, b2c, chas) ==
    IF a2c # 0 THEN "A unexpectedly delivered message directly to C"
    ELSE IF b2c <= 0 \/ chas <= 0
         THEN "Relay evidence missing: expected B->C delivery and C event"
         ELSE "PASS"

\* The two assertions of federation_live_fundamentals_validation.py, in order.
RelayVerdictLive(a2c, b2c, chas) ==
    IF chas <= 0 THEN "C did not ingest A-origin event"
    ELSE IF a2c <= 0 /\ b2c <= 0
         THEN "No delivery attempt to C observed from A or B"
         ELSE "PASS"

\* The relay verification step: three reads, then the assertions.
RelayCheck ==
    /\ verdict = "pending"
    /\ a_to_c' = CountAttempts("a", "origin", "c")
    /\ b_to_c' = CountAttempts("b", "origin", "c")
    /\ c_has_event' = CountEvents("origin")
    /\ verdict' = IF script = "e2e"
                  THEN RelayVerdictE2E(a_to_c', b_to_c', c_has_event')
                  ELSE RelayVerdictLive(a_to_c', b_to_c', c_has_event')
    /\ UNCHANGED <<script, gateVars, faultVars, idleVars, sessVars, scenVars, blockVars, dbVars, trustVars, reqVars, mainVars, attempts, events, pollVars, gwVars>>

InitRelayVars ==
    /\ attempts = [k \in AttemptKeys |-> 0]
    /\ events = [e \in EventIds |-> 0]
    /\ a_to_c = 0
    /\ b_to_c = 0
    /\ c_has_event = 0
    /\ verdict = "pending"

InitRelay ==
    /\ InitMainVars
    /\ InitReqVars
    /\ InitTrustVars
    /\ InitDbVars
    /\ InitBlockVars
    /\ InitScenVars
    /\ InitSessVars
    /\ InitIdleVars
    /\ InitFaultVars
    /\ InitGateVars
    /\ script \in Scripts
    /\ InitRelayVars
    /\ InitPollVars
    /\ InitGwVars

NextRelay ==
    \/ \E n \in Senders, e \in EventIds, d \in Destinations : RecordAttempt(n, e, d)
    \/ \E e \in EventIds : RecordIngest(e)
    \/ RelayCheck

SpecRelay == InitRelay /\ [][NextRelay]_vars

\* The three pieces of relay evidence for the A-origin event, read off the ledgers.
NoDirectAttempt == attempts[<<"a", "origin", "c">>] = 0
RelayAttempt == attempts[<<"b", "origin", "c">>] > 0
IngestedAtC == events["origin"] > 0

BoolToNat(b) == IF b THEN 1 ELSE 0

EvidenceCount == BoolToNat(NoDirectAttempt) + BoolToNat(RelayAttempt) + BoolToNat(IngestedAtC)

\* C8: in both scripts the relay step passes only if there is no A->C attempt
\* row for the event, at least one B->C attempt row, and an ingestion row at C.
C8_RelaySoundness ==
    verdict = "PASS" => (NoDirectAttempt /\ RelayAttempt /\ IngestedAtC)

\* C9: with attempts A->B and B->C, an ingestion row at C and no A->C attempt,
\* the relay step of each script raises no AssertionError.
C9_RelayCompleteness ==
    ( /\ verdict # "pending"
      /\ attempts[<<"a", "origin", "b">>] > 0
      /\ RelayAttempt
      /\ IngestedAtC
      /\ NoDirectAttempt ) => verdict = "PASS"

C9_Witness ==
    /\ verdict = "PASS"
    /\ script = "e2e"
    /\ attempts[<<"a", "origin", "b">>] > 0
    /\ RelayAttempt /\ IngestedAtC /\ NoDirectAttempt

\* C10: in both scripts the relay step fails whenever exactly one of the three
\* pieces of evidence is present.
C10_SingleEvidenceInsufficient ==
    (verdict # "pending" /\ EvidenceCount = 1) => verdict # "PASS"

-----------------------------------------------------------------------------
(* Specification of wait_until                                             *)

InitPoller ==
    /\ InitMainVars
    /\ InitReqVars
    /\ InitTrustVars
    /\ InitDbVars
    /\ InitBlockVars
    /\ InitScenVars
    /\ InitSessVars
    /\ InitIdleVars
    /\ InitFaultVars
    /\ InitGateVars
    /\ script \in Scripts
    /\ InitRelayVars
    /\ InitPollVars
    /\ InitGwVars

NextPoller ==
    \/ \E desc \in Descriptions, timeout \in TimeoutsMs, T \in Thresholds, mode \in FnModes :
          WaitUntilCall(desc, timeout, T, mode)
    \/ WaitUntilPoll
    \/ WaitUntilTimeout

SpecPoller == InitPoller /\ [][NextPoller]_vars

\* The poll interval the specification states for each script (0.5 s / 0.4 s).
StatedIntervalMs == IF script = "e2e" THEN 500 ELSE 400

\* The first multiple of the interval i that is at or after t.
NextPollInstant(t, i) == ((t + i - 1) \div i) * i

PolledAtOrAfterT == fn_T # Never /\ \E t \in p_poll_times : t >= fn_T

\* C5 as stated: with fn false before T and true from T on, wait_until returns
\* successfully whenever timeout_s > T.
C5_PollerSuccessAsStated ==
    (p_pc = "done" /\ fn_mode = "false" /\ fn_T # Never /\ p_timeout > fn_T)
        => p_outcome = Returned

\* C5 amended: with fn false before T and true from T on, wait_until returns
\* successfully whenever one of its polls starts at or after T; with polls exactly
\* one interval apart that is whenever timeout_s exceeds the first multiple of the
\* interval at or after T, and for a shorter timeout it raises TimeoutError.
C5_PollerSuccess ==
    (p_pc = "done" /\ fn_mode = "false" /\ fn_T # Never) =>
        /\ PolledAtOrAfterT => p_outcome = Returned
        /\ p_exact =>
            (p_outcome = Returned
                <=> p_timeout > NextPollInstant(fn_T, StatedIntervalMs))

C5_Witness ==
    /\ p_pc = "done" /\ fn_mode = "false" /\ fn_T = 700 /\ p_timeout = 1300
    /\ p_exact /\ p_outcome = Returned /\ Cardinality(p_poll_times) >= 3

\* C6: with fn false before T, wait_until raises TimeoutError when timeout_s < T,
\* it returns only after a poll that found fn true, and the TimeoutError carries desc.
C6_PollerTimeout ==
    /\ (p_pc = "done" /\ fn_mode = "false" /\ (fn_T = Never \/ p_timeout < fn_T))
          => (p_outcome.exc = "TimeoutError" /\ p_outcome.desc = p_desc)
    /\ (p_pc = "done" /\ p_outcome = Returned) => PolledAtOrAfterT
    /\ (p_pc = "done" /\ p_outcome.exc = "TimeoutError")
          => (p_outcome.desc = p_desc /\ p_now >= p_deadline)

C6_Witness ==
    /\ p_pc = "done" /\ fn_mode = "false" /\ fn_T = 1000 /\ p_timeout = 900
    /\ p_outcome.exc = "TimeoutError" /\ p_outcome.desc = p_desc
    /\ Cardinality(p_poll_times) >= 2

\* C7: an exception of fn counts as "not yet true": wait_until ends only by
\* returning or by TimeoutError; if fn raises on every poll it ends by
\* TimeoutError once the deadline has passed; if fn raised on some polls and
\* was then polled when true, wait_until returns.
C7_PollerSwallowsExceptions ==
    /\ p_pc = "done" => p_outcome.exc \in {"none", "TimeoutError"}
    /\ p_pc # "done" => p_outcome.exc = "pending"
    /\ (p_pc = "done" /\ fn_mode = "raise" /\ fn_T = Never)
          => (p_outcome.exc = "TimeoutError" /\ p_now >= p_deadline)
    /\ (p_pc = "done" /\ p_raised /\ PolledAtOrAfterT) => p_outcome = Returned

C7_Witness ==
    /\ p_pc = "done" /\ p_raised /\ PolledAtOrAfterT /\ p_outcome = Returned
    /\ fn_mode = "raise"

-----------------------------------------------------------------------------
(* Specification of one GatewayClient session                              *)

Init ==
    /\ InitMainVars
    /\ InitReqVars
    /\ InitTrustVars
    /\ InitDbVars
    /\ InitBlockVars
    /\ InitScenVars
    /\ InitSessVars
    /\ InitIdleVars
    /\ InitFaultVars
    /\ InitGateVars
    /\ script = "live"
    /\ InitRelayVars
    /\ InitPollVars
    /\ InitGwVars

Next ==
    \/ Connect
    \/ ConnectRefused
    \/ HelloSilence
    \/ HelloClosed
    \/ \E k \in HelloPhaseKinds : HelloFrame(k)
    \/ HelloTimeout
    \/ \E c \in CallPatterns, timeout \in CallTimeoutsMs :
          WaitDispatchCall(c[1], c[2], timeout)
    \/ WaitPollNotConnected
    \/ WaitPollSilence
    \/ WaitPollClosed
    \/ \E k \in WaitPhaseKinds : WaitPollFrame(k)
    \/ WaitTimeout
    \/ \E inner \in StreamCloseOutcomes : Close(inner)
    \/ Idle
    \/ PeerCloses

Spec == Init /\ [][Next]_vars

-----------------------------------------------------------------------------
(* Specification of request_json                                           *)

InitRequest ==
    /\ InitMainVars
    /\ InitReqVars
    /\ InitTrustVars
    /\ InitDbVars
    /\ InitBlockVars
    /\ InitScenVars
    /\ InitSessVars
    /\ InitIdleVars
    /\ InitFaultVars
    /\ InitGateVars
    /\ script \in Scripts
    /\ InitRelayVars
    /\ InitPollVars
    /\ InitGwVars

NextRequest ==
    \/ \E method \in Methods, url \in Urls, expected \in ExpectedSets,
          status \in Statuses, text \in Bodies :
          RequestJson(method, url, expected, [status |-> status, text |-> text])
    \/ \E method \in Methods, url \in Urls, expected \in ExpectedSets :
          RequestJsonUnanswered(method, url, expected)

SpecRequest == InitRequest /\ [][NextRequest]_vars

-----------------------------------------------------------------------------
(* Specification of the trust topology and its final assertion             *)

InitTrust ==
    /\ InitMainVars
    /\ InitReqVars
    /\ InitTrustVars
    /\ InitDbVars
    /\ InitBlockVars
    /\ InitScenVars
    /\ InitSessVars
    /\ InitIdleVars
    /\ InitFaultVars
    /\ InitGateVars
    /\ script \in Scripts
    /\ InitRelayVars
    /\ InitPollVars
    /\ InitGwVars

NextTrust ==
    \/ AddTrustedPeer
    \/ \E n \in PeerServerNames, flag \in {"untrusted", "trusted"} : NodeStoresPeer(n, flag)
    \/ FinalAssertions

SpecTrust == InitTrust /\ [][NextTrust]_vars

-----------------------------------------------------------------------------
(* Specification of the harness's direct database access                    *)

InitDb ==
    /\ InitMainVars
    /\ InitReqVars
    /\ InitTrustVars
    /\ InitDbVars
    /\ InitBlockVars
    /\ InitScenVars
    /\ InitSessVars
    /\ InitIdleVars
    /\ InitFaultVars
    /\ InitGateVars
    /\ script \in Scripts
    /\ InitRelayVars
    /\ InitPollVars
    /\ InitGwVars

NextDb ==
    \/ \E n \in DbNodes, t \in Tables : NodeWrites(n, t)
    \/ \E n \in DbNodes : InspectorQuery(n)
    \/ \E target \in {"b", "c"} : CloneSharedGuild(target)

SpecDb == InitDb /\ [][NextDb]_vars

-----------------------------------------------------------------------------
(* Specification of the blocking calls, with fairness: the thread that runs *)
(* the loop keeps running                                                   *)

InitBlocking ==
    /\ InitMainVars
    /\ InitReqVars
    /\ InitTrustVars
    /\ InitDbVars
    /\ InitBlockVars
    /\ InitScenVars
    /\ InitSessVars
    /\ InitIdleVars
    /\ InitFaultVars
    /\ InitGateVars
    /\ script \in Scripts
    /\ InitRelayVars
    /\ InitPollVars
    /\ InitGwVars

NextBlocking ==
    \/ \E call \in BlockingCalls, timeout \in BlockingTimeoutsMs,
          env \in StreamBehaviours \cup FnBehaviours, cached \in BOOLEAN :
          BlockingCall(call, timeout, env, cached)
    \/ \E env \in StreamBehaviours \cup FnBehaviours : BehaviourTurns(env)
    \/ DispatchIteration
    \/ UntilIteration
    \/ BlockingTimeout

SpecBlocking ==
    /\ InitBlocking
    /\ [][NextBlocking]_vars
    /\ WF_vars(DispatchIteration)
    /\ WF_vars(UntilIteration)
    /\ WF_vars(BlockingTimeout)

-----------------------------------------------------------------------------
(* Specification of the message scenario of the live script                 *)

InitScenario ==
    /\ InitMainVars
    /\ InitReqVars
    /\ InitTrustVars
    /\ InitDbVars
    /\ InitBlockVars
    /\ InitScenVars
    /\ InitSessVars
    /\ InitIdleVars
    /\ InitFaultVars
    /\ InitGateVars
    /\ script = "live"
    /\ InitRelayVars
    /\ InitPollVars
    /\ InitGwVars

NextScenario ==
    \/ \E ok \in BOOLEAN : ScenarioAct(ok)
    \/ \E d \in EffectDelaysMs, last \in LastReadStarts(AwaitTimeoutMs) : ScenarioAwait(d, last)
    \/ \E d \in EffectDelaysMs, j \in {0, JitterMs} : ScenarioUntil(d, j)

SpecScenario == InitScenario /\ [][NextScenario]_vars

-----------------------------------------------------------------------------
(* Specification of the sessions side by side                               *)

InitSessions ==
    /\ InitMainVars
    /\ InitReqVars
    /\ InitTrustVars
    /\ InitDbVars
    /\ InitBlockVars
    /\ InitScenVars
    /\ InitSessVars
    /\ InitIdleVars
    /\ InitFaultVars
    /\ InitGateVars
    /\ script = "live"
    /\ InitRelayVars
    /\ InitPollVars
    /\ InitGwVars

NextSessions ==
    \/ XRequest
    \/ \E e \in x_emitted : XArrives(e)
    \/ XAwaitReturns
    \/ XAwaitTimesOut

SpecSessions == InitSessions /\ [][NextSessions]_vars

-----------------------------------------------------------------------------
(* Specification of the keepalives over the live scenario                   *)

InitIdle ==
    /\ InitMainVars
    /\ InitReqVars
    /\ InitTrustVars
    /\ InitDbVars
    /\ InitBlockVars
    /\ InitScenVars
    /\ InitSessVars
    /\ k_step = 1
    /\ k_now \in StartClocks
    /\ k_conn = [c \in Sessions |-> Absent]
    /\ k_last = [c \in Sessions |-> 0]
    /\ k_open = {}
    /\ InitFaultVars
    /\ InitGateVars
    /\ script = "live"
    /\ InitRelayVars
    /\ InitPollVars
    /\ InitGwVars

NextIdle ==
    \/ \E d \in {ReadCostMs} : KConnect(d)
    \/ \E d \in {ReadCostMs, 25000 - PollOnceMs, AwaitTimeoutMs - PollOnceMs} : KAwait(d)
    \/ \E d \in {ReadCostMs, UntilTimeoutMs - PollOnceMs} : KOther(d)
    \/ KTeardown

SpecIdle == InitIdle /\ [][NextIdle]_vars

-----------------------------------------------------------------------------
(* Specification of wait_dispatch under raising predicates and failing sends *)

InitFaults ==
    /\ InitMainVars
    /\ InitReqVars
    /\ InitTrustVars
    /\ InitDbVars
    /\ InitBlockVars
    /\ InitScenVars
    /\ InitSessVars
    /\ InitIdleVars
    /\ InitFaultVars
    /\ InitGateVars
    /\ script = "live"
    /\ InitRelayVars
    /\ InitPollVars
    /\ InitGwVars

NextFaults ==
    \/ \E T \in {"MESSAGE_CREATE", "TYPING_START"}, P \in FaultPredicates,
          timeout \in FaultTimeoutsMs : FWaitDispatchCall(T, P, timeout)
    \/ \E ok \in BOOLEAN : FPollSilence(ok)
    \/ \E e \in FaultEvents, ok \in BOOLEAN : FPollFrame(e, ok)
    \/ FWaitTimeout

SpecFaults == InitFaults /\ [][NextFaults]_vars

-----------------------------------------------------------------------------
(* Specification of the security release gate                               *)

InitGate ==
    /\ InitMainVars
    /\ InitReqVars
    /\ InitTrustVars
    /\ InitDbVars
    /\ InitBlockVars
    /\ InitScenVars
    /\ InitSessVars
    /\ InitIdleVars
    /\ InitFaultVars
    /\ tracker \in TrackerFiles
    /\ gate_exit = Absent
    /\ gate_printed = <<>>
    /\ script = "live"
    /\ InitRelayVars
    /\ InitPollVars
    /\ InitGwVars

NextGate == GateMain

SpecGate == InitGate /\ [][NextGate]_vars

-----------------------------------------------------------------------------
(* Specification of main()                                                 *)

InitMain ==
    /\ InitMainVars
    /\ InitReqVars
    /\ InitTrustVars
    /\ InitDbVars
    /\ InitBlockVars
    /\ InitScenVars
    /\ InitSessVars
    /\ InitIdleVars
    /\ InitFaultVars
    /\ InitGateVars
    /\ script \in Scripts
    /\ InitRelayVars
    /\ InitPollVars
    /\ InitGwVars

NextMain ==
    \/ \E r \in {"ok", "open fails", "Popen fails"} : StartNode(r)
    \/ \E r \in ConnectOutcomes : ConnectClient(r)
    \/ \E ok \in BOOLEAN : BodyStep(ok)
    \/ MemberCountAssert
    \/ \E n \in Nodes : NodeExits(n)
    \/ ProcessExit
    \/ CloseSessions
    \/ Sigterm
    \/ Sleep
    \/ Kill
    \/ CloseLogs

SpecMain == InitMain /\ [][NextMain]_vars

\* main(), followed by further runs of the statements of its finally block.
NextTeardown == NextMain \/ TeardownAgain

SpecTeardown == InitMain /\ [][NextTeardown]_vars

-----------------------------------------------------------------------------
(* Backlog and timeout properties of wait_dispatch, checked under Spec     *)

\* "A dispatch event of type T whose payload satisfies P", as the claims use it:
\* an op-0 frame tagged T whose payload is an object for which P is None or true.
Matches(f, T, P) ==
    /\ f.op = 0
    /\ f.t = T
    /\ f.d # NotDict
    /\ (P = "None" \/ (P = "id=m1" /\ f.d = "m1"))

HasMatch(q, T, P) == \E i \in DOMAIN q : Matches(q[i], T, P)

EarliestMatch(q, T, P) ==
    CHOOSE i \in DOMAIN q :
        /\ Matches(q[i], T, P)
        /\ \A j \in 1..(i - 1) : ~Matches(q[j], T, P)

\* q with entry i left out, the others in their order.
Without(q, i) == [j \in 1..(Len(q) - 1) |-> IF j < i THEN q[j] ELSE q[j + 1]]

Ids(q) == {q[i].id : i \in DOMAIN q}

ReturnedIds == {returned[i].msg.id : i \in DOMAIN returned}

\* The latest wait_dispatch is over (it returned or raised).
CallOver == g_pc = "idle" /\ wd_outcome.exc # "pending"

\* C1: no received event is returned by more than one wait_dispatch call: the
\* events returned so far are pairwise distinct, none of them is still in the
\* backlog, the backlog holds no event twice, and each returning call got an
\* event matching its own (T,P); so two returning calls for the same (T,P), one
\* before a match arrived and one after, got two distinct matching events.
C1_BacklogAtMostOnce ==
    /\ \A i, j \in DOMAIN returned : i # j => returned[i].msg.id # returned[j].msg.id
    /\ \A i, j \in DOMAIN backlog : i # j => backlog[i].id # backlog[j].id
    /\ Ids(backlog) \cap ReturnedIds = {}
    /\ \A i \in DOMAIN returned : Matches(returned[i].msg, returned[i].T, returned[i].P)

\* Two calls for the same (T,P) returned: the first waited on the stream for its
\* event, the second came afterwards, and they got two different events.
C1_Witness ==
    \E i, j \in DOMAIN returned :
        /\ i < j
        /\ returned[i].T = returned[j].T
        /\ returned[i].P = returned[j].P
        /\ returned[i].T # "READY"
        /\ returned[i].src = "stream"
        /\ returned[i].msg.id # returned[j].msg.id

\* C2: when the backlog a wait_dispatch(T,P) call finds holds a match, the call
\* returns the earliest-arrived match without reading the stream, and the backlog
\* it leaves is the one it found less exactly that entry, order kept.
C2_BacklogOldestFirst ==
    HasMatch(pre_backlog, event_type, predicate) =>
        LET m == EarliestMatch(pre_backlog, event_type, predicate) IN
        /\ CallOver
        /\ wd_outcome.exc = "none"
        /\ wd_outcome.src = "backlog"
        /\ wd_outcome.msg = pre_backlog[m]
        /\ call_recv = <<>>
        /\ backlog = Without(pre_backlog, m)

\* A call with a predicate found two entries of its type, the older one failing
\* the predicate, and returned the newer one, leaving the older one.
C2_Witness ==
    /\ Len(pre_backlog) = 2
    /\ predicate # "None"
    /\ pre_backlog[1].t = event_type
    /\ ~Matches(pre_backlog[1], event_type, predicate)
    /\ Matches(pre_backlog[2], event_type, predicate)
    /\ wd_outcome.msg = pre_backlog[2]
    /\ backlog = <<pre_backlog[1]>>

\* C3: every dispatch event a wait_dispatch call (the READY wait of connect
\* included) has read is the event the call returned or is in the backlog, while
\* the call runs and after it ended, however it ended; and every dispatch event
\* ever read on the session has been returned once or is in the backlog.
C3_UnmatchedRetained ==
    /\ \A i \in DOMAIN call_recv :
          \/ wd_outcome.exc = "none" /\ wd_outcome.msg = call_recv[i]
          \/ \E j \in DOMAIN backlog : backlog[j] = call_recv[i]
    /\ \A n \in 1..n_arrived : n \in ReturnedIds \/ n \in Ids(backlog)

\* An event read by a call that ended in TimeoutError was returned by a later
\* call, from the backlog, on a session whose backlog still holds an event read
\* during the READY wait of connect.
C3_Witness ==
    /\ \E i \in DOMAIN returned :
          /\ returned[i].src = "backlog"
          /\ returned[i].msg.id \in timed_out_ids
    /\ \E i \in DOMAIN returned, j \in DOMAIN backlog :
          /\ returned[i].T = "READY"
          /\ backlog[j].id < returned[i].msg.id

TypesOf(q) == [i \in DOMAIN q |-> q[i].t]

NoMatchForCall ==
    /\ ~HasMatch(pre_backlog, event_type, predicate)
    /\ ~HasMatch(call_recv, event_type, predicate)

-----------------------------------------------------------------------------
(* Keepalive and handshake properties of GatewayClient, checked under Spec *)

\* connect() returned and the session still has its connection, the peer's end up.
Connected == c_outcome = "ok" /\ ws = "open" /\ link = "up"

SinceKeepalive == now - last_heartbeat_at

SinceRead == now - last_read_at

SentCount(op) == Cardinality({i \in DOMAIN sent : sent[i] = op})

\* A READY dispatch was read and returned to connect.
ReadyReceived ==
    \E i \in DOMAIN returned :
        /\ returned[i].msg.op = 0
        /\ returned[i].msg.t = "READY"
        /\ returned[i].T = "READY"

\* C12: connect sends the identification frame (op 2) at most once, and only
\* once a greeting (op 10) has been read; when connect has returned it was sent
\* exactly once and a READY dispatch has been read on the connection.
C12_HandshakeOrder ==
    /\ SentCount(2) <= 1
    /\ SentCount(2) = 1 => greeted
    /\ c_outcome \in {"never", "ConnectionError"} => sent = <<>>
    /\ c_outcome = "ok" => (SentCount(2) = 1 /\ ReadyReceived)

\* connect returned after a handshake in which another event arrived before READY.
C12_Witness ==
    /\ c_outcome = "ok"
    /\ n_calls = 0
    /\ greeted
    /\ SentCount(2) = 1
    /\ ReadyReceived
    /\ backlog # <<>>

\* connect() is over: it returned or raised.
ConnectOver == c_outcome \notin {"never", "connecting"}

\* connect read a first frame that is no greeting.
WrongOpcode == hello # NoFrame /\ hello.op # 10

\* connect read a greeting whose payload carries an interval that is no number.
InterpretedInterval == hello # NoFrame /\ hello.op = 10 /\ IsDict(hello.d)

NonNumericInterval == InterpretedInterval /\ hello.hb = Malformed

ConnectReturns == c_outcome # "ok" /\ c_outcome' = "ok"

\* The greeting read by the connect in progress carries no interval.
CarriesNoInterval == hello.d = NotDict \/ hello.hb = Absent

\* C14 as stated: when connect returns, the session's interval is the one the
\* greeting carried, or 41.25 s when it carried none.
C14_NegotiationAsStated ==
    [][ConnectReturns =>
          heartbeat_interval_s' = IF CarriesNoInterval THEN DefaultHeartbeatMs
                                  ELSE hello.hb]_vars

\* C14: when connect returns, the session's interval is the larger of 1 s and
\* the interval the greeting carried, and it is 41.25 s when the greeting has no
\* payload object or no interval field; connect does not fail on such a greeting
\* as long as READY follows.
C14_Negotiation ==
    [][ConnectReturns =>
          /\ hello # NoFrame
          /\ hello.op = 10
          /\ heartbeat_interval_s' = heartbeat_interval_s
          /\ IF CarriesNoInterval
             THEN heartbeat_interval_s' = DefaultHeartbeatMs
             ELSE /\ hello.hb >= 0
                  /\ heartbeat_interval_s' = Max(MinHeartbeatMs, hello.hb)]_vars

\* connect has returned on a session whose greeting carried no interval (the
\* only greetings that lead to 41.25 s), before any wait_dispatch of the scenario.
C14_Witness ==
    /\ c_outcome = "ok"
    /\ greeted
    /\ ReadyReceived
    /\ n_calls = 0
    /\ heartbeat_interval_s = DefaultHeartbeatMs

\* What close() leaves alone: every field of the session but ws.
SessionFields == <<heartbeat_interval_s, last_heartbeat_at, backlog>>

\* The step is a call of close().
CloseStep == Len(closed') = Len(closed) + 1

\* C15: close() never raises, whatever the session's state (never connected,
\* connected, connect failed, ws.close() raising, closed before); it leaves self.ws
\* None; and on a session without a handle it calls nothing and changes nothing.
C15_CloseNeverRaises ==
    [][CloseStep =>
          LET call == closed'[Len(closed')] IN
          /\ call.exc = "none"
          /\ ws' = "none"
          /\ UNCHANGED SessionFields
          /\ ws = "none" => (call.inner = "skipped" /\ UNCHANGED <<ws, sent, link>>)]_vars

\* close() was called on a connected session with ws.close() raising, and then
\* once more.
C15_Witness ==
    /\ c_outcome = "ok"
    /\ Len(closed) = 2
    /\ closed[1].had = "open"
    /\ closed[1].inner = "OSError"
    /\ closed[1].exc = "none"
    /\ closed[2].had = "none"
    /\ closed[2].exc = "none"
    /\ ws = "none"

\* close() was called on a session that never connected.
C15_NeverConnectedClosed ==
    c_outcome = "never" /\ closed # <<>> /\ closed[1].had = "none" /\ ws = "none"

-----------------------------------------------------------------------------
(* Lifecycle and teardown properties of main(), checked under SpecMain      *)

\* main has been left, by return or by an exception.
MainOver == m_pc = "exited"

\* Position of a stage in Provisioning -> ... -> VerifyingRelay -> Passed|Failed.
StageRank(st) ==
    CASE st = "Provisioning" -> 1
      [] st = "TrustLinking" -> 2
      [] st = "Acting" -> 3
      [] st = "AwaitingRealtime" -> 4
      [] st = "AwaitingConvergence" -> 5
      [] st = "VerifyingRelay" -> 6
      [] OTHER -> 7

\* The finally block has dealt with process p: both loops came to it and it
\* does not run any more.
TornDown(p) ==
    /\ term[p].did # "nothing"
    /\ kill[p].did # "nothing"
    /\ proc_state[p] \in {"exited", "killed"}

StepTaken == m_pc = "body" /\ (m_step' # m_step \/ m_pc' # "body")

\* C17 as stated: the stage of a run never moves backwards.
C17_ForwardOnlyAsStated == [][StageRank(stage') >= StageRank(stage)]_vars

\* C17: Passed and Failed are final; Provisioning and TrustLinking are never
\* entered again; the only move backwards is to Acting, when the run goes on to
\* its next cause after the waits or the relay verification of the one before;
\* and the relay verification is run only once wait_until has seen the cause on
\* node C (and on node B).
C17_StageOrder ==
    [][/\ stage \in {"Passed", "Failed"} => stage' = stage
       /\ StageRank(stage') < StageRank(stage) =>
             /\ stage' = "Acting"
             /\ stage \in {"AwaitingRealtime", "AwaitingConvergence", "VerifyingRelay"}
       /\ (StepTaken /\ CurStep.kind = "relay") => {"b", "c"} \subseteq observed]_vars

\* The message was edited, a new cause, after the relay verification of its
\* creation.
C17_Witness ==
    /\ m_pc = "body"
    /\ m_step > 1
    /\ StepsOf(script)[m_step - 1].arg = "edit"
    /\ StepsOf(script)[m_step - 2].kind = "relay"
    /\ stage = "Acting"
    /\ observed = {}

C19_SessionsClosed == MainOver => \A c \in Clients : sock[c] # "open"

\* Every client of gateway_clients is closed when main is left (the part of
\* C19 the finally block does ensure).
ListedSessionsClosed ==
    MainOver => \A i \in DOMAIN gateway_clients : sock[gateway_clients[i]] = "closed"

\* C20: whatever cleanup call raises, the finally block runs all its loops to
\* the end (every listed client closed, every process of procs met by both
\* signal loops, every log file met by the last loop), and what leaves main is
\* the exception of the body, or "return 0" when there was none.
C20_CleanupDoesNotMask ==
    MainOver =>
      /\ main_result = IF body_exc = "none" THEN "return 0" ELSE body_exc
      /\ \A i \in DOMAIN gateway_clients : sock[gateway_clients[i]] = "closed"
      /\ \A i \in DOMAIN procs : term[procs[i]].did # "nothing" /\ kill[procs[i]].did # "nothing"
      /\ t_i = Len(log_files) + 1
      /\ slept

\* The body raised AssertionError, and in the finally block a ws.close(), a
\* send_signal, a kill and a fh.close() raised: AssertionError left main.
C20_Witness ==
    /\ MainOver
    /\ body_exc = "AssertionError"
    /\ main_result = "AssertionError"
    /\ cleanup_failed = {"session", "sigterm", "kill", "log"}

-----------------------------------------------------------------------------
(* Teardown run again, checked under SpecTeardown                           *)

\* What a run of the teardown statements can change for the outside.
TeardownEffects == <<proc_state, sock, main_result, body_exc, procs, log_files, gateway_clients>>

-----------------------------------------------------------------------------
(* request_json, checked under SpecRequest                                  *)

RequestOver == rq_out # NoOut

\* C22: request_json returns only with a status of the caller's accepted set;
\* a response with any other status ends the call in an exception whose
\* message names the method, the URL, the status and the body; and the call
\* issues one request, whatever the answer.
C22_RequestJson ==
    RequestOver =>
        /\ rq_sent = 1
        /\ rq_out.kind = "return" => rq_resp.status \in rq_call.expected
        /\ (rq_resp # NoResponse /\ rq_resp.status \notin rq_call.expected) =>
              /\ rq_out.kind = "raise"
              /\ rq_out.method = rq_call.method
              /\ rq_out.url = rq_call.url
              /\ rq_out.status = rq_resp.status
              /\ rq_out.body = Strip(rq_resp.text)

\* What holds in both scripts: one request, a return only on an accepted
\* status, an exception on every other one.
C22_RequestJsonFailsHard ==
    RequestOver =>
        /\ rq_sent = 1
        /\ rq_out.kind = "return" => rq_resp.status \in rq_call.expected
        /\ (rq_resp # NoResponse /\ rq_resp.status \notin rq_call.expected) =>
              /\ rq_out.kind = "raise"
              /\ rq_out.status = rq_resp.status

\* The e2e script asked for 201 and was answered 404 with a body: the call
\* ended in HTTPError, whose message names the status alone.
C22_Witness ==
    /\ script = "e2e"
    /\ rq_call.method = "POST"
    /\ rq_call.expected = {201}
    /\ rq_resp = [status |-> 404, text |-> "not found\n"]
    /\ rq_out.type = "HTTPError"
    /\ rq_out.url = ""

-----------------------------------------------------------------------------
(* The exit status, checked under SpecMain                                  *)

ProcessOver == exit_code # Absent

\* C23: the process ends with status 0 only after a body in which every step
\* succeeded and that returned 0; after any failure of the body it ends with a
\* status other than 0 and has printed "FAIL: " followed by a description of
\* the failure.
C23_ExitStatus ==
    ProcessOver =>
        /\ exit_code = 0 =>
              /\ body_exc = "none"
              /\ main_result = "return 0"
              /\ stage = "Passed"
              /\ m_step = Len(StepsOf(script))
        /\ body_exc # "none" =>
              /\ exit_code # 0
              /\ fail_line.printed
              /\ fail_line.prefix = "FAIL: "
              /\ fail_line.text # ""

\* What holds of both scripts: status 0 only on full success, and a line
\* starting with "FAIL: " and a status other than 0 on every failure.
C23_ExitStatusAndPrefix ==
    ProcessOver =>
        /\ exit_code = 0 =>
              /\ body_exc = "none"
              /\ main_result = "return 0"
              /\ stage = "Passed"
        /\ body_exc # "none" =>
              /\ exit_code # 0
              /\ fail_line.printed
              /\ fail_line.prefix = "FAIL: "

\* The live script ended with status 1 after the member count assertion that
\* follows the leave failed: the line on stderr is "FAIL: " and nothing else.
C23_Witness ==
    /\ script = "live"
    /\ exit_code = 1
    /\ body_exc = "AssertionError"
    /\ CurStep.arg = "rest"
    /\ fail_line = [printed |-> TRUE, prefix |-> "FAIL: ", text |-> ""]

-----------------------------------------------------------------------------
(* The final trust assertion, checked under SpecTrust                       *)

\* C24: the final assertion passes only if the trusted peers found in A's
\* store are the configured ones, node-b.test and no other; in both scripts.
C24_TrustSetExact ==
    trust_verdict = "PASS" => Range(peer_names) = ConfiguredForA

\* What the live script's assertion ensures: the configured peer is among the
\* trusted ones.
C24_ConfiguredPeerTrusted ==
    trust_verdict = "PASS" => ConfiguredForA \subseteq Range(peer_names)

\* The live script passed its final assertion with node-c.test trusted on A
\* beside node-b.test.
C24_Witness ==
    /\ script = "live"
    /\ trust_verdict = "PASS"
    /\ peer_names = <<"node-b.test", "node-c.test">>

-----------------------------------------------------------------------------
(* Direct database access, checked under SpecDb                             *)

\* The step is a direct access of the harness to a database.
HarnessAccess == n_access' # n_access

-----------------------------------------------------------------------------
(* Bounded blocking, checked under SpecBlocking                             *)

\* C26: a wait_dispatch or wait_until call that is in its loop ends, by
\* returning or raising, whatever the stream and fn do and however they change;
\* and while it is in the loop its deadline is less than one iteration behind.
C26_BoundedBlocking ==
    /\ (b_pc = "loop") ~> (b_pc = "done")
    /\ [](b_pc = "loop" => b_now < b_deadline + PollOnceMs + JitterMs + 1)

\* A wait_dispatch call ended in TimeoutError at its deadline after a stream of
\* events that did not match, all kept in the backlog.
C26_Witness ==
    /\ b_call = "wait_dispatch"
    /\ b_out = "TimeoutError"
    /\ b_env = "other events"
    /\ b_backlog >= 10
    /\ b_now >= b_deadline

-----------------------------------------------------------------------------
(* The message scenario, checked under SpecScenario                         *)

\* Statement w ended well and observed its effect less than ms after it was
\* called.
ObservedWithin(w, ms) ==
    /\ sn_log[w].out = "ok"
    /\ sn_log[w].at - sn_log[w].call < ms

\* Statement w ended well and observed its effect no more than ms after it
\* was called.
ObservedUpTo(w, ms) ==
    /\ sn_log[w].out = "ok"
    /\ sn_log[w].at - sn_log[w].call <= ms

\* Statement v was called only after w was over.
Before(w, v) == sn_log[w].at <= sn_log[v].call

\* C27 as stated: in a run that passed, MESSAGE_CREATE was received within
\* 20 s, B showed the created content within 30 s, MESSAGE_UPDATE was received
\* and B showed the edited content within 30 s.
C27_MessageScenarioAsStated ==
    sn_result = "Passed" =>
        /\ sn_log["create message"].out = "ok"
        /\ ObservedUpTo("MESSAGE_CREATE", AwaitTimeoutMs)
        /\ ObservedUpTo("message replicated to B", UntilTimeoutMs)
        /\ sn_log["edit message"].out = "ok"
        /\ sn_log["MESSAGE_UPDATE"].out = "ok"
        /\ ObservedUpTo("edited message on B", UntilTimeoutMs)

\* C27: in a run that passed, each of the four observations was made, in the
\* order of the scenario and each after its cause; MESSAGE_CREATE and
\* MESSAGE_UPDATE were received less than 20 s plus one read attempt (0.5 s)
\* after their wait_dispatch was called, and B's store showed the created and
\* the edited content at a poll less than 30 s after its wait_until was called.
C27_MessageScenario ==
    sn_result = "Passed" =>
        /\ sn_log["create message"].out = "ok"
        /\ ObservedWithin("MESSAGE_CREATE", AwaitTimeoutMs + PollOnceMs)
        /\ ObservedWithin("message replicated to B", UntilTimeoutMs)
        /\ sn_log["edit message"].out = "ok"
        /\ ObservedWithin("MESSAGE_UPDATE", AwaitTimeoutMs + PollOnceMs)
        /\ ObservedWithin("edited message on B", UntilTimeoutMs)
        /\ Before("create message", "MESSAGE_CREATE")
        /\ Before("MESSAGE_CREATE", "message replicated to B")
        /\ Before("message replicated to B", "edit message")
        /\ Before("edit message", "MESSAGE_UPDATE")
        /\ Before("MESSAGE_UPDATE", "edited message on B")

\* The run passed with MESSAGE_CREATE received 20.3 s after wait_dispatch was
\* called and B showing the content at the last poll a wait_until can make.
C27_Witness ==
    /\ sn_result = "Passed"
    /\ sn_log["MESSAGE_CREATE"].at - sn_log["MESSAGE_CREATE"].call = 20300
    /\ sn_log["message replicated to B"].at - sn_log["message replicated to B"].call = 29600
    /\ sn_log["edited message on B"].at - sn_log["edited message on B"].call = 0

-----------------------------------------------------------------------------
(* Arrival order across sessions, checked under SpecSessions                *)

\* Event e has reached the socket of its session.
HasArrived(e) == \E i \in DOMAIN x_order : x_order[i] = e

\* Position of e in the order of arrival.
ArrivalIndex(e) == CHOOSE i \in DOMAIN x_order : x_order[i] = e

\* The wait_dispatch calls made so far, in order.
AwaitsMade ==
    SelectSeq(SubSeq(RelationshipStretch, 1,
                     IF x_result = "Passed" THEN x_step ELSE x_step - 1),
              LAMBDA st : st.kind = "await")

\* C28: whatever the order in which the events reach the sockets of guest1,
\* guest2 and admin-a, every wait_dispatch call that is over returned the
\* event of its own session and type, and a call fails only when its event has
\* not reached its session; a run in which every event arrives passes.
C28_NoCrossSessionOrder ==
    /\ Len(x_returned) = Len(AwaitsMade)
    /\ \A i \in DOMAIN x_returned :
          /\ x_returned[i] = Ev(AwaitsMade[i].sess, AwaitsMade[i].t)
          /\ HasArrived(x_returned[i])
    /\ x_result = "TimeoutError" => ~HasArrived(Ev(XStmt.sess, XStmt.t))

\* The stretch passed although guest2's RELATIONSHIP_ADD came before guest1's,
\* with admin-a's event between them, and guest2's RELATIONSHIP_REMOVE came only
\* after an event that guest2 was not waiting for.
C28_Witness ==
    /\ x_result = "Passed"
    /\ Len(x_order) = 6
    /\ ArrivalIndex(Ev("guest2", "RELATIONSHIP_ADD")) < ArrivalIndex(Ev("admin-a", "PRESENCE_UPDATE"))
    /\ ArrivalIndex(Ev("admin-a", "PRESENCE_UPDATE")) < ArrivalIndex(Ev("guest1", "RELATIONSHIP_ADD"))
    /\ ArrivalIndex(Ev("guest2", "PRESENCE_UPDATE")) < ArrivalIndex(Ev("guest2", "RELATIONSHIP_REMOVE"))
    /\ ArrivalIndex(Ev("guest1", "RELATIONSHIP_REMOVE")) < ArrivalIndex(Ev("guest2", "PRESENCE_UPDATE"))
    /\ x_backlog["guest2"] = <<"PRESENCE_UPDATE">>

-----------------------------------------------------------------------------
(* Keepalives of idle sessions, checked under SpecIdle                      *)

\* The time session c has gone without sending a keepalive since its connect().
KeepaliveGap(c) == k_now - Max(k_last[c], k_conn[c])

\* C29: while every statement of the live scenario ends within its timeout, no
\* connected session goes longer than the keepalive interval without sending
\* a keepalive, from its connect() to teardown.
C29_PiggybackSufficient ==
    \A c \in k_open : KeepaliveGap(c) <= DefaultHeartbeatMs

\* guest2 is connected and has sent nothing for longer than the interval when
\* the scenario comes to its first wait_dispatch on it, every statement before
\* having ended within its timeout.
C29_Witness ==
    /\ KCur = KStmt("await", "guest2", AwaitTimeoutMs)
    /\ "guest2" \in k_open
    /\ KeepaliveGap("guest2") > 2 * DefaultHeartbeatMs

-----------------------------------------------------------------------------
(* The keepalive threshold of _maybe_heartbeat, checked under Spec          *)

\* One read attempt: an iteration of the receive loop of connect or of
\* wait_dispatch.
ReadAttempt ==
    \/ HelloSilence
    \/ HelloClosed
    \/ \E k \in HelloPhaseKinds : HelloFrame(k)
    \/ WaitPollSilence
    \/ WaitPollClosed
    \/ \E k \in WaitPhaseKinds : WaitPollFrame(k)

\* The step put one more op 1 frame on the wire.
KeepaliveEmitted ==
    Cardinality({i \in DOMAIN sent' : sent'[i] = 1})
        = Cardinality({i \in DOMAIN sent : sent[i] = 1}) + 1

\* No op 1 frame was put on the wire by the step.
NoKeepaliveEmitted ==
    Cardinality({i \in DOMAIN sent' : sent'[i] = 1})
        = Cardinality({i \in DOMAIN sent : sent[i] = 1})

\* C30: a read attempt of a session whose peer is there sends one op 1 frame if
\* 90% or more of heartbeat_interval_s has passed since last_heartbeat_at and
\* none otherwise; a read attempt that sent one leaves last_heartbeat_at at the
\* current time; and last_heartbeat_at never decreases.
C30_KeepaliveThreshold ==
    [][/\ (ReadAttempt /\ link = "up") =>
              IF HeartbeatDue(now, last_heartbeat_at, heartbeat_interval_s)
              THEN KeepaliveEmitted /\ last_heartbeat_at' = now
              ELSE NoKeepaliveEmitted
       /\ (ReadAttempt /\ link # "up") =>
              NoKeepaliveEmitted /\ last_heartbeat_at' = last_heartbeat_at
       /\ last_heartbeat_at' >= last_heartbeat_at]_vars

\* A read attempt of connect's receive loop sent a keepalive: the clock stood
\* at 40 s, more than 90% of the default interval after last_heartbeat_at = 0.
C30_Witness ==
    /\ g_pc = "hello"
    /\ link = "up"
    /\ SentCount(1) = 1
    /\ last_heartbeat_at = 40000
    /\ last_read_at = 40000

-----------------------------------------------------------------------------
(* The order of the backlog, checked under Spec                             *)

\* The backlog's events carry increasing arrival numbers, none beyond the
\* number of typed dispatch frames received.
InArrivalOrder(bl) ==
    /\ \A i \in DOMAIN bl : bl[i].id \in 1..n_arrived
    /\ \A i, j \in DOMAIN bl : i < j => bl[i].id < bl[j].id

\* The step left the backlog alone, took one entry out of it, or put the
\* dispatch frame it just received at its end.
BacklogStep ==
    \/ backlog' = backlog
    \/ \E i \in DOMAIN backlog : backlog' = Pop(backlog, i)
    \/ /\ n_arrived' = n_arrived + 1
       /\ Len(backlog') = Len(backlog) + 1
       /\ SubSeq(backlog', 1, Len(backlog)) = backlog
       /\ backlog'[Len(backlog')].id = n_arrived'
       /\ TypedDispatchFrame(backlog'[Len(backlog')])

\* C31: the backlog is a subsequence of the dispatch events received on the
\* session, in the order they arrived: its entries carry increasing arrival
\* numbers, and every step either leaves it alone, removes one entry, or
\* appends the event just received at its end.
C31_BacklogArrivalOrder ==
    /\ [](InArrivalOrder(backlog))
    /\ [][BacklogStep]_vars

\* Two events wait in the backlog, the one that arrived first ahead of the other,
\* after a call took nothing from it.
C31_Witness ==
    /\ Len(backlog) = 2
    /\ backlog[1].id < backlog[2].id
    /\ n_calls >= 1
    /\ g_pc = "idle"

-----------------------------------------------------------------------------
(* The trust topology, checked under SpecTrust                              *)

\* C32 as stated: the finished trust step has created A->B, B->A, B->C and
\* C->B and no edge between A and C in either direction.
C32_NoEdgeBetweenAAndC ==
    tr_calls = Len(TrustCalls) =>
        /\ {<<"a", "b">>, <<"b", "a">>, <<"b", "c">>, <<"c", "b">>} \subseteq TrustEdges
        /\ <<"a", "c">> \notin TrustEdges
        /\ <<"c", "a">> \notin TrustEdges

\* C32: the trust step never makes C a trusted peer of A, and when it is over
\* the edges are A->B, B->A, B->C, C->B and C->A.
C32_RelayChain ==
    /\ <<"a", "c">> \notin TrustEdges
    /\ tr_calls = Len(TrustCalls) =>
           TrustEdges = {<<"a", "b">>, <<"b", "a">>, <<"b", "c">>, <<"c", "b">>, <<"c", "a">>}

\* The trust step is over: A trusts B, and C has been told to trust A.
C32_Witness ==
    /\ tr_calls = Len(TrustCalls)
    /\ <<"c", "a">> \in TrustEdges
    /\ a_store[ServerName["b"]] = "trusted"

-----------------------------------------------------------------------------
(* The first frame of a connection, checked under Spec                      *)

\* C33: nothing is sent before connect has read the greeting, and the first
\* frame sent on the connection is the identification frame (op 2).
C33_IdentifyFirst ==
    /\ ~greeted => sent = <<>>
    /\ sent # <<>> => sent[1] = 2

\* connect still waits for the greeting and a keepalive is already on the wire.
C33_Witness ==
    /\ g_pc = "hello"
    /\ ~greeted
    /\ hello = NoFrame
    /\ sent = <<1>>

-----------------------------------------------------------------------------
(* Predicates that raise, checked under SpecFaults                          *)



\* C34: when the predicate raised, the call ended with that exception and the
\* event it was testing is in the backlog.
C34_RaisingPredicateKeepsEvent ==
    f_out.exc = "KeyError" => f_out.msg \in Range(f_backlog)

\* The predicate raised on an event just read from the stream, and the event is
\* not in the backlog.
C34_Witness ==
    /\ f_pc = "idle"
    /\ f_out.exc = "KeyError"
    /\ f_out.src = "stream"
    /\ f_out.msg \notin Range(f_backlog)

\* The predicate raised on an event of the backlog, and the event is still there.
C34_BacklogCaseWitness ==
    /\ f_out.exc = "KeyError"
    /\ f_out.src = "backlog"
    /\ f_out.msg \in Range(f_backlog)

-----------------------------------------------------------------------------
(* Calls satisfied from the backlog, checked under Spec                     *)

\* C35: a wait_dispatch call whose pattern matches a backlog entry returns the
\* first such entry at once, whatever its timeout and whether or not close()
\* was called: it reads nothing, sends nothing, takes no time, and leaves the
\* connection, last_heartbeat_at and the other backlog entries as they were.
C35_BacklogHitTouchesNothing ==
    [][(n_calls' = n_calls + 1 /\ FindInBacklog(backlog, event_type', predicate') # 0) =>
          LET idx == FindInBacklog(backlog, event_type', predicate') IN
          /\ wd_outcome' = WdOutcome("none", backlog[idx], <<>>, "backlog")
          /\ g_pc' = "idle"
          /\ backlog' = Pop(backlog, idx)
          /\ UNCHANGED <<ws, link, last_heartbeat_at, sent, last_read_at, now, n_arrived>>]_vars

\* After close() a call was satisfied from the backlog, which still holds
\* another event.
C35_Witness ==
    /\ g_pc = "idle"
    /\ ws = "none"
    /\ closed # <<>>
    /\ n_calls >= 1
    /\ wd_outcome.exc = "none"
    /\ wd_outcome.src = "backlog"
    /\ Len(backlog) >= 1

-----------------------------------------------------------------------------
(* The peer closing the stream under a wait, checked under Spec             *)

\* wait_dispatch is in its loop, its deadline ahead, and the peer has closed.
ClosedUnderWait == g_pc = "wait" /\ ws # "none" /\ link = "down" /\ now < deadline

\* C36: when the peer has closed the stream under a waiting wait_dispatch, the
\* call's next step raises RuntimeError, no time having passed, and the
\* backlog keeps what it held, which includes every dispatch event the call
\* has read.
C36_PeerCloseFailsAtOnce ==
    [][ClosedUnderWait =>
          /\ g_pc' = "idle"
          /\ wd_outcome'.exc = "RuntimeError"
          /\ now' = now
          /\ backlog' = backlog
          /\ \A i \in DOMAIN call_recv : call_recv[i] \in Range(backlog')]_vars

\* A call of the scenario read an event that did not match, the peer closed the
\* stream, and the call failed before its deadline with the event in the backlog.
C36_Witness ==
    /\ g_pc = "idle"
    /\ ~in_connect
    /\ n_calls >= 1
    /\ link = "down"
    /\ wd_outcome.exc = "RuntimeError"
    /\ now < deadline
    /\ call_recv # <<>>
    /\ call_recv[1] \in Range(backlog)

-----------------------------------------------------------------------------
(* Keepalive sends that fail, checked under SpecFaults                      *)

\* One read attempt of the wait_dispatch loop.
FReadAttempt ==
    \/ \E ok \in BOOLEAN : FPollSilence(ok)
    \/ \E e \in FaultEvents, ok \in BOOLEAN : FPollFrame(e, ok)

\* C37: a read attempt at which a keepalive is due attempts the send; when the
\* send fails the attempt goes on to its recv() as if nothing had been due
\* (the call ends only as the frame read makes it end), last_heartbeat_at and
\* the frames sent stay as they were, and the keepalive stays due, so that the
\* next read attempt tries again.
C37_FailedKeepaliveSwallowed ==
    /\ [][FReadAttempt =>
            /\ HeartbeatDue(f_now, f_last, FaultInterval) <=> f_hb' \in {"sent", "failed"}
            /\ f_hb' = "failed" =>
                  /\ f_last' = f_last
                  /\ f_sent' = f_sent
                  /\ f_out'.exc \in {"pending", "none", "KeyError"}
                  /\ f_out'.exc = "pending" <=> f_pc' = "wait"
                  /\ f_now' > f_now]_vars
    /\ [](f_hb = "failed" => HeartbeatDue(f_now, f_last, FaultInterval))

\* The keepalive send failed at a read attempt of a call that went on, and
\* failed again at the next one: nothing was sent in two intervals.
C37_Witness ==
    /\ f_pc = "wait"
    /\ f_hb = "failed"
    /\ f_sent = 0
    /\ f_last = 0
    /\ f_now >= 2 * FaultInterval

-----------------------------------------------------------------------------
(* What the backlog holds, checked under Spec                               *)

\* C38: every backlog entry, and every frame wait_dispatch returned, is a JSON
\* object with op 0 and a str type tag.
C38_OnlyDispatchFrames ==
    /\ \A i \in DOMAIN backlog : TypedDispatchFrame(backlog[i])
    /\ \A i \in DOMAIN returned : TypedDispatchFrame(returned[i].msg)

\* The READY wait of connect has been reading for a while and its latest read
\* delivered a frame that is no dispatch frame: nothing went to the backlog.
C38_Witness ==
    /\ g_pc = "wait"
    /\ in_connect
    /\ now > deadline - ReadyTimeoutMs
    /\ last_read_at = now
    /\ call_recv = <<>>
    /\ backlog = <<>>

-----------------------------------------------------------------------------
(* The security release gate, checked under SpecGate                        *)

\* The tracker has a P0 row that is OPEN, IN_PROGRESS or BLOCKED.
HasBlockingRow == \E i \in DOMAIN tracker.rows : RowMatches(tracker.rows[i])

\* C39: the gate returns a non-zero exit code when the tracker is missing or
\* has a P0 row that is OPEN, IN_PROGRESS or BLOCKED, and 0 otherwise.
C39_GateBlocks ==
    gate_exit # Absent =>
        (gate_exit # 0 <=> (~tracker.exists \/ HasBlockingRow))

\* The gate returned 0 on a tracker with an OPEN P0 row.
C39_Witness ==
    /\ gate_exit = 0
    /\ tracker.exists
    /\ \E i \in DOMAIN tracker.rows : tracker.rows[i] = [p0 |-> TRUE, status |-> "OPEN"]

=============================================================================
